---- MODULE Spec2Model ----
(***************************************************************************)
(* Serial-cli: the STM32 UART bootloader engine (stm32_bootloader.py), the *)
(* serial session with its background reader (serial_handler.py) and the   *)
(* interactive workflows that drive the engine (flash_commands.py), and    *)
(* the firmware parser they read their files with (hex_parser.py).         *)
(*                                                                         *)
(* Spec         the protocol engine alone: a caller invokes the engine's   *)
(*              methods on an open port, the MCU answers byte by byte.     *)
(* SpecMemory   read_memory and write_memory at the lengths around the     *)
(*              256-byte limit.                                            *)
(* SpecSession  the interactive program: connect/disconnect, the reader    *)
(*              thread and the short cmd_* workflows, interleaved.         *)
(* SpecFlash    cmd_flash and cmd_verify on a connected port.              *)
(* SpecHex      parse_hex_file and parse_bin_file on small files.          *)
(* SpecLink     the terminal alone: connect, disconnect, send_data and the *)
(*              reader on a device that sends, is lost and comes back.     *)
(* SpecPrompt   every command of the prompt, the reader left out.          *)
(* SpecLive     the six workflows on a connected port, with the fairness   *)
(*              of the foreground thread, for termination.                 *)
(* SpecTerm     the reader's display of short texts, in text and in hex    *)
(*              mode, with the fairness of the reader thread.              *)
(* SpecFlood    the reader on a device that sends faster than lines end:   *)
(*              the display buffer beyond MAX_DISPLAY_BUFFER.              *)
(* SpecSync     the six workflows on a port whose input buffer holds bytes *)
(*              that arrived before the workflow began.                    *)
(***************************************************************************)
EXTENDS Integers, Sequences, FiniteSets, TLC

(* ------------------------------------------------------------------ *)
(* Program constants                                                    *)
(* ------------------------------------------------------------------ *)
STM32_CMD_GET == 0
STM32_CMD_GET_VERSION == 1
STM32_CMD_GET_ID == 2
STM32_CMD_READ_MEMORY == 17
STM32_CMD_GO == 33
STM32_CMD_WRITE_MEMORY == 49
STM32_CMD_ERASE == 67
STM32_CMD_EXTENDED_ERASE == 68
STM32_CMD_WRITE_UNPROTECT == 115
STM32_CMD_READOUT_UNPROTECT == 146
STM32_ACK == 121
STM32_NACK == 31
STM32_FLASH_START == 134217728
STM32_WRITE_BLOCK_SIZE == 256
SYNC_BYTE == 127
PAD_BYTE == 255
MAX_RW_LENGTH == 256
READ_BUFFER_SIZE == 16384
MAX_DISPLAY_BUFFER == 32768
RX_SYNC_THRESHOLD == 1024
max_consecutive_errors == 5

(* ------------------------------------------------------------------ *)
(* Bounds of the model                                                  *)
(* ------------------------------------------------------------------ *)
\* SpecMemory transfers 0..SmallLen bytes, next to the lengths around the
\* 256-byte limit
SmallLen == 5
\* Spec transfers 0..MaxShort bytes
MaxShort == 2
\* a bootloader's Get answer lists no opcode or MaxCmds opcodes
MaxCmds == 2
\* page lists of erase_pages hold 1..MaxPages pages
MaxPages == 2
\* Serial objects created by connect() in one run
MaxPorts == 1
MaxLinks == 2
MaxSends == 2
MaxBursts == 2
MaxNoise == 2
\* workflows started in one run of the interactive program
MaxRuns == 1
\* a HEX file handed to the parser holds 0..MaxLines lines
MaxLines == 3
MaxFloods == 3

(* ------------------------------------------------------------------ *)
(* Bytes                                                                *)
(* ------------------------------------------------------------------ *)
RECURSIVE XorBits(_, _, _)
XorBits(a, b, n) ==
    IF n = 0 THEN 0
    ELSE (((a % 2) + (b % 2)) % 2) + 2 * XorBits(a \div 2, b \div 2, n - 1)

\* Python's a ^ b on two bytes
Xor(a, b) == XorBits(a, b, 8)

RECURSIVE XorRange(_, _, _)
XorRange(s, lo, hi) ==
    IF lo > hi THEN 0
    ELSE IF lo = hi THEN s[lo]
    ELSE Xor(XorRange(s, lo, (lo + hi) \div 2), XorRange(s, ((lo + hi) \div 2) + 1, hi))

\* checksum = 0; for b in s: checksum ^= b
XorAll(s) == XorRange(s, 1, Len(s))

\* struct.pack('>I', address)
PackU32(address) ==
    << (address \div 16777216) % 256, (address \div 65536) % 256,
       (address \div 256) % 256, address % 256 >>

\* struct.pack('>H', v)
PackU16(v) == << (v \div 256) % 256, v % 256 >>

RECURSIVE Flatten(_)
Flatten(ss) == IF ss = <<>> THEN <<>> ELSE Head(ss) \o Flatten(Tail(ss))

\* variant of Contains that looks at the first element only
ContainsFirst(s, x) == s # <<>> /\ s[1] = x

\* x in s
Contains(s, x) == \E i \in 1..Len(s) : s[i] = x

Min(a, b) == IF a < b THEN a ELSE b

(* ------------------------------------------------------------------ *)
(* State                                                                *)
(* ------------------------------------------------------------------ *)
VARIABLES
    \* serial.Serial objects, numbered in creation order, and the device
    nports,            \* how many Serial objects connect() has created
    port_open,         \* Serial.is_open of each object
    port_parity,       \* Serial.parity of each object: "N" or "E"
    rxbuf,             \* bytes received by the host and not yet read
    mcu,               \* the MCU: the stages of the answer it still owes
    chip,              \* the bootloader on the wire: version, opcodes, product id
    fault,             \* the device is gone: every I/O on the port raises
    \* SerialManager (serial_handler.manager)
    ser,               \* manager.ser: a port number, 0 for None
    rx_bytes,          \* manager.rx_bytes
    tx_bytes,          \* manager.tx_bytes
    mgr_reader_paused, \* manager.reader_paused, the flag _serial_reader tests
    running,           \* manager.running
    hex_mode,          \* manager.hex_mode
    \* module attribute serial_handler.reader_paused, the flag the workflows set
    reader_paused,
    \* locals of SerialManager._serial_reader
    rpc,               \* position of the reader thread
    current_ser,
    bytes_to_read,
    buffer,
    consecutive_errors,
    local_rx_count,
    \* STM32Bootloader object
    eng_ser,           \* self.ser: a port number, 0 when no engine exists
    extended_erase,
    chip_id,           \* -1 for None
    bootloader_version,\* -1 for None
    commands,
    enumerated,        \* history: <<>> until a Get of this engine has returned, then
                       \* <<the command list it returned>>
    old_parity,
    \* the engine method being executed
    op,                \* method name, "none" when no call is in progress
    pc,                \* position in the method
    args,              \* its arguments
    ret,               \* how it ended: return value or exception
    sub,               \* helper being executed: "none", "_wait_ack", "_read_byte"
    subret,            \* what the helper returned
    locals,            \* num_bytes, data/chip_id_bytes, remaining
    tx,                \* the writes of this call, in order: [kind, bytes]
    consumed,          \* the bytes this call read from the port: [by, b]
    \* the foreground: workflow of flash_commands.py being executed
    wf,                \* workflow name, "none" at the prompt
    wpc,               \* position in the workflow
    wargs,             \* its arguments
    wlocals,           \* its locals
    runs,              \* workflows started so far
    \* hex_parser.py: a call of parse_hex_file or parse_bin_file
    filepath,          \* the file it reads: kind, text lines or bytes, start address
    parse,             \* its locals: line_num, segments, current_segment,
                       \* base_address, and how far it got
    disk,              \* the firmware files that exist
    \* history of the session, kept for the properties
    history            \* rx, tx: bytes the reader read and send_data wrote since
                       \* the last successful connect; sends, bursts: calls of
                       \* send_data and bursts from the device so far; result:
                       \* what the last send_data returned; streak: the I/O
                       \* errors of the reader since its last successful poll

filevars == <<filepath, parse, disk>>
portvars == <<nports, port_open, port_parity, chip, fault, filevars, history>>
linevars == <<rxbuf, mcu>>
mgrvars == <<ser, rx_bytes, tx_bytes, mgr_reader_paused, running, hex_mode>>
readervars == <<rpc, current_ser, bytes_to_read, buffer, consecutive_errors, local_rx_count>>
infovars == <<extended_erase, chip_id, bootloader_version, commands, enumerated>>
engvars == <<eng_ser, old_parity>>
callvars == <<op, pc, args, ret, sub, subret, locals, tx, consumed>>
wfvars == <<wf, wpc, wargs, wlocals, runs>>
vars == <<portvars, linevars, mgrvars, reader_paused, readervars, infovars, engvars, callvars, wfvars>>

NoRet == [kind |-> "none", ok |-> FALSE, data |-> <<>>]
NoSub == [ok |-> FALSE, byte |-> 0]
NoLocals == [num_bytes |-> 0, data |-> <<>>, remaining |-> 0]
NoArgs == [address |-> 0, length |-> 0, data |-> <<>>, pages |-> <<>>]
\* start_address=None
NoAddress == -1
NoWArgs ==
    [ser |-> 0, address |-> 0, length |-> 0, file |-> "none", start_address |-> NoAddress]
\* the locals of a workflow; reported is the address its mismatch message
\* names, and two fields are history: chunk_failures counts the failed calls
\* on the chunk at (seg, offset), readback collects the chunks read back and
\* found equal to the file, written the chunks whose write_memory returned
NoWLocals ==
    [segments |-> <<>>, seg |-> 1, offset |-> 0, errors |-> 0, data |-> <<>>,
     scoped |-> FALSE, outcome |-> "none", reported |-> -1,
     chunk_failures |-> 0, readback |-> <<>>, bytes_written |-> 0, written |-> <<>>]

\* no file is being parsed
NoFile == [kind |-> "none", lines |-> <<>>, data |-> <<>>, start_address |-> 0]
None == [none |-> TRUE, address |-> 0, data |-> <<>>]

\* parse_hex_file before its first line: segments = [], current_segment =
\* None, base_address = 0, line_num = 0; records is history, the data
\* records taken so far with their absolute addresses
Unparsed ==
    [line_num |-> 0, segments |-> <<>>, current_segment |-> None, base_address |-> 0,
     status |-> "open", records |-> <<>>]
NoParse == filepath = NoFile /\ parse = Unparsed

\* what can be on the disk: every file the user may name but one, with or
\* without the file that is longer than a write block
FullDisk == {"notes.txt", "broken.hex", "blank.hex", "empty.bin", "image.bin", "image.hex",
             "large.bin"}
SmallDisk == FullDisk \ {"large.bin"}
NoHistory == [rx |-> 0, tx |-> 0, sends |-> 0, bursts |-> 0, result |-> "none", streak |-> 0]

\* I/O on the engine's port succeeds: the port is open and the device is there
PortOk == port_open[eng_ser] /\ ~fault

Running == op # "none" /\ ret.kind = "none"


(* ------------------------------------------------------------------ *)
(* The MCU (environment)                                                *)
(* ------------------------------------------------------------------ *)
\* the opcodes a bootloader lists, its erase command second
CmdList(erase) ==
    <<STM32_CMD_GET, erase, STM32_CMD_GET_VERSION, STM32_CMD_GET_ID,
      STM32_CMD_READ_MEMORY, STM32_CMD_GO, STM32_CMD_WRITE_MEMORY>>

\* the bootloaders explored: an old one with the standard erase and a
\* one-byte product id, a newer one with the extended erase; each also in a
\* variant whose Get answer lists no opcode
Chips ==
    { [version |-> IF e = STM32_CMD_ERASE THEN 16 ELSE 49,
       cmds |-> SubSeq(CmdList(e), 1, n),
       pid |-> IF e = STM32_CMD_ERASE THEN <<4>> ELSE <<4, 19>>] :
         e \in {STM32_CMD_ERASE, STM32_CMD_EXTENDED_ERASE}, n \in {0, MaxCmds} }

\* a byte that is neither ACK nor NACK
Stray == <<85>>
Seeds == {0, 1}

\* what the MCU holds at an address: one of two memory images, which agree
\* at the even addresses and differ at the odd ones
Mem(seed, a) == (3 * a + 101 * seed * (a % 2) + 7) % 256

McuIdle == [plan |-> <<>>, left |-> 0, seed |-> 0, address |-> 0]

\* the answer a bootloader owes to the host's write, stage by stage
Stages(kind) ==
    IF kind = "cmd" /\ op = "get_commands" THEN <<"jack", "get_n", "version", "cmds", "end">>
    ELSE IF kind = "cmd" /\ op = "get_id" THEN <<"jack", "id_n", "id_bytes", "end">>
    ELSE IF kind = "cmd" /\ op = "get_version" THEN <<"jack", "version", "opt", "opt", "end">>
    ELSE IF kind = "cmd" /\ op \in {"write_unprotect", "readout_unprotect"}
         THEN <<"jack", "end">>
    ELSE IF kind = "len" THEN <<"jack", "data">>
    ELSE <<"jack">>

\* an MCU that has nothing left to send is idle
Settle(m) == IF m.plan = <<>> THEN McuIdle ELSE m

\* read data arrives in one burst or in two; short data also byte by byte
Bursts(left) == {left} \cup {IF left <= SmallLen THEN 1 ELSE left - 1}

\* the MCU sends the next byte of its answer once the previous one was taken
\* (read data also in one burst); it may send a stray byte before an
\* answer NACK, or stay silent for good
McuEmit ==
    /\ mcu.plan # <<>> /\ rxbuf = <<>> /\ Running
    /\ LET st == Head(mcu.plan)
           rest == Tail(mcu.plan)
       IN  \/ /\ st \in {"jack", "ack", "end"}
              /\ \/ rxbuf' = <<STM32_ACK>> /\ mcu' = Settle([mcu EXCEPT !.plan = rest])
                 \/ rxbuf' = <<STM32_NACK>> /\ mcu' = Settle([mcu EXCEPT !.plan = <<>>])
           \/ /\ st = "get_n"
              /\ rxbuf' = <<Len(chip.cmds)>>
              /\ mcu' = Settle([mcu EXCEPT !.left = Len(chip.cmds), !.plan = rest])
           \/ /\ st = "version"
              /\ rxbuf' = <<chip.version>>
              /\ mcu' = Settle([mcu EXCEPT
                    !.plan = IF rest # <<>> /\ Head(rest) = "cmds" /\ mcu.left = 0
                             THEN Tail(rest) ELSE rest])
           \/ /\ st = "cmds"
              /\ rxbuf' = <<chip.cmds[Len(chip.cmds) - mcu.left + 1]>>
              /\ mcu' = Settle([mcu EXCEPT !.left = mcu.left - 1,
                                    !.plan = IF mcu.left = 1 THEN rest ELSE mcu.plan])
           \/ /\ st = "id_n"
              /\ rxbuf' = <<Len(chip.pid) - 1>>
              /\ mcu' = Settle([mcu EXCEPT !.left = Len(chip.pid), !.plan = rest])
           \/ /\ st = "id_bytes"
              /\ rxbuf' = <<chip.pid[Len(chip.pid) - mcu.left + 1]>>
              /\ mcu' = Settle([mcu EXCEPT !.left = mcu.left - 1,
                                    !.plan = IF mcu.left = 1 THEN rest ELSE mcu.plan])
           \/ /\ st = "opt"
              /\ rxbuf' = <<0>>
              /\ mcu' = Settle([mcu EXCEPT !.plan = rest])
           \/ /\ st = "data"
              /\ \E k \in Bursts(mcu.left) :
                    /\ rxbuf' = [i \in 1..k |-> Mem(mcu.seed, mcu.address + i - 1)]
                    /\ mcu' = Settle([mcu EXCEPT !.left = mcu.left - k,
                                          !.address = mcu.address + k,
                                          !.plan = IF mcu.left = k THEN rest ELSE mcu.plan])
    /\ UNCHANGED <<portvars, mgrvars, reader_paused, readervars, infovars, engvars,
                   callvars, wfvars>>

\* line noise: one stray byte ahead of the first acknowledgement of an answer
McuStray ==
    /\ mcu.plan # <<>> /\ Head(mcu.plan) = "jack" /\ rxbuf = <<>> /\ Running
    /\ rxbuf' = Stray
    /\ mcu' = [mcu EXCEPT !.plan = <<"ack">> \o Tail(mcu.plan)]
    /\ UNCHANGED <<portvars, mgrvars, reader_paused, readervars, infovars, engvars,
                   callvars, wfvars>>

(* ------------------------------------------------------------------ *)
(* STM32Bootloader: helpers                                             *)
(* ------------------------------------------------------------------ *)
\* the bytes _send_byte hands to ser.write
_send_byte(byte) == <<byte>>

\* variant of _send_command that repeats the opcode instead of complementing it
_send_command_repeat(cmd) == <<cmd, cmd>>

\* the bytes _send_command hands to ser.write
_send_command(cmd) == <<cmd, Xor(cmd, 255)>>

\* variant of AddrBlock whose checksum is the sum of the address bytes
AddrBlockSum(address) ==
    PackU32(address) \o <<(PackU32(address)[1] + PackU32(address)[2]
                            + PackU32(address)[3] + PackU32(address)[4]) % 256>>

\* addr_bytes + bytes([checksum]) of read_memory, write_memory and go
AddrBlock(address) == PackU32(address) \o <<XorAll(PackU32(address))>>

\* variant of PadData that pads nothing
PadDataNone(data) == data

\* write_memory: while len(data) % 4 != 0: data.append(0xFF)
PadData(data) == data \o [i \in 1..((4 - (Len(data) % 4)) % 4) |-> PAD_BYTE]

\* write_memory: bytes([num_bytes]) + bytes(data) + bytes([checksum])
DataBlock(data) ==
    LET num_bytes == Len(data) - 1
    IN  <<num_bytes>> \o data \o <<Xor(num_bytes, XorAll(data))>>

\* variant of LengthBlock that sends the length itself, not length - 1
LengthBlockRaw(length) == <<length % 256, Xor(length % 256, 255)>>

\* read_memory: bytes([num_bytes, num_bytes ^ 0xFF])
LengthBlock(length) == <<length - 1, Xor(length - 1, 255)>>

\* _standard_erase_all: bytes([0xFF, 0x00])
StandardMassErase == <<255, 0>>

\* _extended_erase_all: bytes([0xFF, 0xFF, 0x00])
ExtendedMassErase == <<255, 255, 0>>

\* _standard_erase_pages: bytes([num_pages]) + bytes(pages) + bytes([checksum])
StandardPageBlock(pages) ==
    LET num_pages == Len(pages) - 1
    IN  <<num_pages>> \o pages \o <<Xor(num_pages, XorAll(pages))>>

\* _extended_erase_pages: '>H' num_pages, '>H' each page, XOR of all of it
ExtendedPageBlock(pages) ==
    LET data == PackU16(Len(pages) - 1)
                \o Flatten([i \in 1..Len(pages) |-> PackU16(pages[i])])
    IN  data \o <<XorAll(data)>>

\* self.ser.write(bytes): the write goes on the wire and the MCU reacts
Send(kind, bytes) ==
    /\ PortOk
    /\ tx' = Append(tx, [kind |-> kind, bytes |-> bytes])
    /\ IF kind = "len"
       THEN \E s \in Seeds :
               mcu' = [plan |-> Stages(kind), left |-> args.length, seed |-> s,
                       address |-> args.address]
       ELSE mcu' = [McuIdle EXCEPT !.plan = Stages(kind)]

NoSend == UNCHANGED <<tx, mcu>>
NoRead == UNCHANGED <<rxbuf, consumed, subret>>
Goto(p) == pc' = p /\ sub' = "none" /\ UNCHANGED ret
CallSub(s, p) == pc' = p /\ sub' = s /\ UNCHANGED ret
Raise(kind) ==
    /\ ret' = [kind |-> kind, ok |-> FALSE, data |-> <<>>]
    /\ sub' = "none" /\ UNCHANGED pc
Return(ok, data) ==
    /\ ret' = [kind |-> "return", ok |-> ok, data |-> data]
    /\ sub' = "none" /\ UNCHANGED pc

\* variant of Expire that reports the timeout as the result False
ExpireFalse == Return(FALSE, <<>>)

ExpireNever == FALSE

\* the deadline of _wait_ack / _read_byte has passed: raise TimeoutError(...)
Expire == Raise("TimeoutError")
EngFrame == UNCHANGED <<portvars, mgrvars, reader_paused, readervars, engvars, wfvars, op, args>>

\* a step that sends one block and then waits for its acknowledgement
SendAwait(kind, bytes, p) ==
    /\ Send(kind, bytes) /\ CallSub("_wait_ack", p)
    /\ NoRead /\ UNCHANGED <<locals, infovars>>

\* variant of Fail that writes one more block before it raises
FailLate(kind) ==
    /\ Raise(kind) /\ Send("late", <<>>) /\ NoRead /\ UNCHANGED <<locals, infovars>>

\* a step that raises without touching the port
Fail(kind) == Raise(kind) /\ NoSend /\ NoRead /\ UNCHANGED <<locals, infovars>>

\* one iteration of _wait_ack's loop: read(1); ACK -> True, NACK -> False,
\* anything else or nothing -> loop again or, the deadline passed, TimeoutError
_wait_ack ==
    /\ Running /\ sub = "_wait_ack" /\ PortOk
    /\ \/ /\ rxbuf # <<>>
          /\ rxbuf' = Tail(rxbuf)
          /\ consumed' = Append(consumed, [by |-> "_wait_ack", b |-> Head(rxbuf)])
          /\ IF Head(rxbuf) = STM32_ACK
             THEN sub' = "none" /\ subret' = [ok |-> TRUE, byte |-> Head(rxbuf)]
                  /\ UNCHANGED ret
             ELSE IF Head(rxbuf) = STM32_NACK
             THEN sub' = "none" /\ subret' = [ok |-> FALSE, byte |-> Head(rxbuf)]
                  /\ UNCHANGED ret
             ELSE \/ UNCHANGED <<sub, subret, ret>>
                  \/ Expire /\ UNCHANGED subret
       \/ /\ rxbuf = <<>>
          /\ Expire
          /\ UNCHANGED <<rxbuf, consumed, subret>>
    /\ UNCHANGED <<pc, locals, infovars>> /\ NoSend /\ EngFrame

\* one iteration of _read_byte's loop: read(1); any byte is returned
_read_byte ==
    /\ Running /\ sub = "_read_byte" /\ PortOk
    /\ \/ /\ rxbuf # <<>>
          /\ rxbuf' = Tail(rxbuf)
          /\ consumed' = Append(consumed, [by |-> "_read_byte", b |-> Head(rxbuf)])
          /\ sub' = "none" /\ subret' = [ok |-> TRUE, byte |-> Head(rxbuf)]
          /\ UNCHANGED ret
       \/ /\ rxbuf = <<>>
          /\ Expire
          /\ UNCHANGED <<rxbuf, consumed, subret>>
    /\ UNCHANGED <<pc, locals, infovars>> /\ NoSend /\ EngFrame


(* ------------------------------------------------------------------ *)
(* STM32Bootloader: methods                                             *)
(* ------------------------------------------------------------------ *)
At(o, p) == Running /\ op = o /\ sub = "none" /\ pc = p

\* sync(): flush both buffers, send 0x7F, return _wait_ack(timeout=2.0)
sync ==
    /\ EngFrame
    /\ \/ /\ At("sync", "start")
          /\ rxbuf' = <<>>
          /\ Send("sync", _send_byte(SYNC_BYTE))
          /\ CallSub("_wait_ack", "ack")
          /\ UNCHANGED <<consumed, subret, locals, infovars>>
       \/ /\ At("sync", "ack")
          /\ Return(subret.ok, <<>>)
          /\ NoSend /\ NoRead /\ UNCHANGED <<locals, infovars>>

get_commands ==
    /\ EngFrame
    /\ \/ /\ At("get_commands", "start")
          /\ SendAwait("cmd", _send_command(STM32_CMD_GET), "cmd_ack")
       \/ /\ At("get_commands", "cmd_ack")
          /\ IF ~subret.ok THEN Raise("Exception") ELSE CallSub("_read_byte", "num_bytes")
          /\ NoSend /\ NoRead /\ UNCHANGED <<locals, infovars>>
       \/ /\ At("get_commands", "num_bytes")
          /\ locals' = [locals EXCEPT !.num_bytes = subret.byte]
          /\ CallSub("_read_byte", "version")
          /\ NoSend /\ NoRead /\ UNCHANGED infovars
       \/ /\ At("get_commands", "version")
          /\ bootloader_version' = subret.byte
          /\ commands' = <<>>
          /\ IF locals.num_bytes > 0 THEN CallSub("_read_byte", "commands")
                                     ELSE CallSub("_wait_ack", "end_ack")
          /\ NoSend /\ NoRead /\ UNCHANGED <<locals, extended_erase, chip_id, enumerated>>
       \/ /\ At("get_commands", "commands")
          /\ commands' = Append(commands, subret.byte)
          /\ IF Len(commands') < locals.num_bytes THEN CallSub("_read_byte", "commands")
                                                  ELSE CallSub("_wait_ack", "end_ack")
          /\ NoSend /\ NoRead
          /\ UNCHANGED <<locals, extended_erase, chip_id, bootloader_version, enumerated>>
       \/ /\ At("get_commands", "end_ack")
          /\ IF ~subret.ok
             THEN Raise("Exception") /\ UNCHANGED infovars
             ELSE /\ extended_erase' = Contains(commands, STM32_CMD_EXTENDED_ERASE)
                  /\ enumerated' = <<commands>>
                  /\ Return(TRUE, commands)
                  /\ UNCHANGED <<chip_id, bootloader_version, commands>>
          /\ NoSend /\ NoRead /\ UNCHANGED locals

get_version ==
    /\ EngFrame /\ UNCHANGED infovars
    /\ \/ /\ At("get_version", "start")
          /\ SendAwait("cmd", _send_command(STM32_CMD_GET_VERSION), "cmd_ack")
       \/ /\ At("get_version", "cmd_ack")
          /\ IF ~subret.ok THEN Raise("Exception") ELSE CallSub("_read_byte", "version")
          /\ NoSend /\ NoRead /\ UNCHANGED locals
       \/ /\ At("get_version", "version")
          /\ locals' = [locals EXCEPT !.data = <<subret.byte>>]
          /\ CallSub("_read_byte", "option1")
          /\ NoSend /\ NoRead
       \/ /\ At("get_version", "option1")
          /\ CallSub("_read_byte", "option2")
          /\ NoSend /\ NoRead /\ UNCHANGED locals
       \/ /\ At("get_version", "option2")
          /\ CallSub("_wait_ack", "end_ack")
          /\ NoSend /\ NoRead /\ UNCHANGED locals
       \/ /\ At("get_version", "end_ack")
          /\ IF ~subret.ok THEN Raise("Exception") ELSE Return(TRUE, locals.data)
          /\ NoSend /\ NoRead /\ UNCHANGED locals

\* (chip_id_bytes[0] << 8) | chip_id_bytes[1] if len >= 2 else chip_id_bytes[0]
ChipIdOf(chip_id_bytes) ==
    IF Len(chip_id_bytes) >= 2 THEN chip_id_bytes[1] * 256 + chip_id_bytes[2]
                               ELSE chip_id_bytes[1]

get_id ==
    /\ EngFrame
    /\ \/ /\ At("get_id", "start")
          /\ SendAwait("cmd", _send_command(STM32_CMD_GET_ID), "cmd_ack")
       \/ /\ At("get_id", "cmd_ack")
          /\ IF ~subret.ok THEN Raise("Exception") ELSE CallSub("_read_byte", "num_bytes")
          /\ NoSend /\ NoRead /\ UNCHANGED <<locals, infovars>>
       \/ /\ At("get_id", "num_bytes")
          /\ locals' = [locals EXCEPT !.num_bytes = subret.byte + 1, !.data = <<>>]
          /\ CallSub("_read_byte", "id_bytes")
          /\ NoSend /\ NoRead /\ UNCHANGED infovars
       \/ /\ At("get_id", "id_bytes")
          /\ locals' = [locals EXCEPT !.data = Append(locals.data, subret.byte)]
          /\ IF Len(locals'.data) < locals.num_bytes THEN CallSub("_read_byte", "id_bytes")
                                                     ELSE CallSub("_wait_ack", "end_ack")
          /\ NoSend /\ NoRead /\ UNCHANGED infovars
       \/ /\ At("get_id", "end_ack")
          /\ IF ~subret.ok
             THEN Raise("Exception") /\ UNCHANGED infovars
             ELSE /\ chip_id' = ChipIdOf(locals.data)
                  /\ Return(TRUE, <<chip_id'>>)
                  /\ UNCHANGED <<extended_erase, bootloader_version, commands, enumerated>>
          /\ NoSend /\ NoRead /\ UNCHANGED locals

\* read_memory's argument check: if length <= 0 or length > 256
BadReadLength(length) == length <= 0 \/ length > MAX_RW_LENGTH

read_memory ==
    /\ EngFrame /\ UNCHANGED infovars
    /\ \/ /\ At("read_memory", "start")
          /\ IF BadReadLength(args.length)
             THEN Fail("ValueError")
             ELSE SendAwait("cmd", _send_command(STM32_CMD_READ_MEMORY), "cmd_ack")
       \/ /\ At("read_memory", "cmd_ack")
          /\ IF ~subret.ok THEN Fail("Exception")
                           ELSE SendAwait("addr", AddrBlock(args.address), "addr_ack")
       \/ /\ At("read_memory", "addr_ack")
          /\ IF ~subret.ok THEN Fail("Exception")
                           ELSE SendAwait("len", LengthBlock(args.length), "len_ack")
       \/ /\ At("read_memory", "len_ack")
          /\ IF ~subret.ok
             THEN Fail("Exception")
             ELSE /\ locals' = [locals EXCEPT !.data = <<>>, !.remaining = args.length]
                  /\ Goto("data") /\ NoSend /\ NoRead
       \/ /\ At("read_memory", "data")     \* one iteration of while remaining > 0
          /\ NoSend /\ UNCHANGED subret
          /\ IF locals.remaining > 0
             THEN /\ PortOk
                  /\ \/ /\ rxbuf # <<>>
                        /\ LET k == Min(Min(locals.remaining, 256), Len(rxbuf))
                               chunk == SubSeq(rxbuf, 1, k)
                           IN  /\ rxbuf' = SubSeq(rxbuf, k + 1, Len(rxbuf))
                               /\ consumed' = consumed \o
                                     [i \in 1..k |-> [by |-> "read", b |-> chunk[i]]]
                               /\ locals' = [locals EXCEPT
                                     !.data = locals.data \o chunk,
                                     !.remaining = locals.remaining - k]
                        /\ Goto("data")
                     \/ /\ rxbuf = <<>>
                        /\ Raise("TimeoutError")
                        /\ UNCHANGED <<rxbuf, consumed, locals>>
             ELSE /\ Return(TRUE, locals.data)
                  /\ UNCHANGED <<rxbuf, consumed, locals>>

\* variant of BadWriteData without the upper limit
BadWriteEmpty(data) == Len(data) = 0

\* write_memory's argument checks: if not data / if len(data) > 256
BadWriteData(data) == Len(data) = 0 \/ Len(data) > MAX_RW_LENGTH

write_memory ==
    /\ EngFrame /\ UNCHANGED infovars
    /\ \/ /\ At("write_memory", "start")
          /\ IF BadWriteData(args.data)
             THEN Fail("ValueError")
             ELSE SendAwait("cmd", _send_command(STM32_CMD_WRITE_MEMORY), "cmd_ack")
       \/ /\ At("write_memory", "cmd_ack")
          /\ IF ~subret.ok THEN Fail("Exception")
                           ELSE SendAwait("addr", AddrBlock(args.address), "addr_ack")
       \/ /\ At("write_memory", "addr_ack")
          /\ IF ~subret.ok THEN Fail("Exception")
                           ELSE SendAwait("data", DataBlock(PadData(args.data)), "data_ack")
       \/ /\ At("write_memory", "data_ack")
          /\ IF ~subret.ok THEN Raise("Exception") ELSE Return(TRUE, <<>>)
          /\ NoSend /\ NoRead /\ UNCHANGED locals


\* variant of EraseAllTarget that always takes the standard erase
EraseAllStandard(ext) == "std_all"

\* erase_all: the method the dispatch on self.extended_erase picks
EraseAllTarget(ext) == IF ext THEN "ext_all" ELSE "std_all"

\* erase_all(): _extended_erase_all() if self.extended_erase else _standard_erase_all()
erase_all ==
    /\ EngFrame /\ UNCHANGED infovars
    /\ At("erase_all", "start")
    /\ Goto(EraseAllTarget(extended_erase))
    /\ NoSend /\ NoRead /\ UNCHANGED locals

_standard_erase_all ==
    /\ EngFrame /\ UNCHANGED infovars
    /\ \/ /\ At("erase_all", "std_all")
          /\ SendAwait("cmd", _send_command(STM32_CMD_ERASE), "std_all_cmd_ack")
       \/ /\ At("erase_all", "std_all_cmd_ack")
          /\ IF ~subret.ok THEN Fail("Exception")
                           ELSE SendAwait("erase", StandardMassErase, "std_all_ack")
       \/ /\ At("erase_all", "std_all_ack")
          /\ IF ~subret.ok THEN Raise("Exception") ELSE Return(TRUE, <<>>)
          /\ NoSend /\ NoRead /\ UNCHANGED locals

_extended_erase_all ==
    /\ EngFrame /\ UNCHANGED infovars
    /\ \/ /\ At("erase_all", "ext_all")
          /\ SendAwait("cmd", _send_command(STM32_CMD_EXTENDED_ERASE), "ext_all_cmd_ack")
       \/ /\ At("erase_all", "ext_all_cmd_ack")
          /\ IF ~subret.ok THEN Fail("Exception")
                           ELSE SendAwait("erase", ExtendedMassErase, "ext_all_ack")
       \/ /\ At("erase_all", "ext_all_ack")
          /\ IF ~subret.ok THEN Raise("Exception") ELSE Return(TRUE, <<>>)
          /\ NoSend /\ NoRead /\ UNCHANGED locals

\* erase_pages(pages): the same dispatch
erase_pages ==
    /\ EngFrame /\ UNCHANGED infovars
    /\ At("erase_pages", "start")
    /\ Goto(IF extended_erase THEN "ext_pages" ELSE "std_pages")
    /\ NoSend /\ NoRead /\ UNCHANGED locals

\* bytes(pages) accepts only values 0..255
FitsBytes(pages) == \A i \in 1..Len(pages) : pages[i] \in 0..255

_standard_erase_pages ==
    /\ EngFrame /\ UNCHANGED infovars
    /\ \/ /\ At("erase_pages", "std_pages")
          /\ SendAwait("cmd", _send_command(STM32_CMD_ERASE), "std_pages_cmd_ack")
       \/ /\ At("erase_pages", "std_pages_cmd_ack")
          /\ IF ~subret.ok THEN Fail("Exception")
             ELSE IF ~FitsBytes(args.pages) THEN Fail("ValueError")
             ELSE SendAwait("pages", StandardPageBlock(args.pages), "std_pages_ack")
       \/ /\ At("erase_pages", "std_pages_ack")
          /\ IF ~subret.ok THEN Raise("Exception") ELSE Return(TRUE, <<>>)
          /\ NoSend /\ NoRead /\ UNCHANGED locals

_extended_erase_pages ==
    /\ EngFrame /\ UNCHANGED infovars
    /\ \/ /\ At("erase_pages", "ext_pages")
          /\ SendAwait("cmd", _send_command(STM32_CMD_EXTENDED_ERASE), "ext_pages_cmd_ack")
       \/ /\ At("erase_pages", "ext_pages_cmd_ack")
          /\ IF ~subret.ok THEN Fail("Exception")
                           ELSE SendAwait("pages", ExtendedPageBlock(args.pages), "ext_pages_ack")
       \/ /\ At("erase_pages", "ext_pages_ack")
          /\ IF ~subret.ok THEN Raise("Exception") ELSE Return(TRUE, <<>>)
          /\ NoSend /\ NoRead /\ UNCHANGED locals

go ==
    /\ EngFrame /\ UNCHANGED infovars
    /\ \/ /\ At("go", "start")
          /\ SendAwait("cmd", _send_command(STM32_CMD_GO), "cmd_ack")
       \/ /\ At("go", "cmd_ack")
          /\ IF ~subret.ok THEN Fail("Exception")
                           ELSE SendAwait("addr", AddrBlock(args.address), "addr_ack")
       \/ /\ At("go", "addr_ack")
          /\ IF ~subret.ok THEN Raise("Exception") ELSE Return(TRUE, <<>>)
          /\ NoSend /\ NoRead /\ UNCHANGED locals

write_unprotect ==
    /\ EngFrame /\ UNCHANGED infovars
    /\ \/ /\ At("write_unprotect", "start")
          /\ SendAwait("cmd", _send_command(STM32_CMD_WRITE_UNPROTECT), "cmd_ack")
       \/ /\ At("write_unprotect", "cmd_ack")
          /\ IF ~subret.ok THEN Raise("Exception") ELSE CallSub("_wait_ack", "end_ack")
          /\ NoSend /\ NoRead /\ UNCHANGED locals
       \/ /\ At("write_unprotect", "end_ack")
          /\ IF ~subret.ok THEN Raise("Exception") ELSE Return(TRUE, <<>>)
          /\ NoSend /\ NoRead /\ UNCHANGED locals

readout_unprotect ==
    /\ EngFrame /\ UNCHANGED infovars
    /\ \/ /\ At("readout_unprotect", "start")
          /\ SendAwait("cmd", _send_command(STM32_CMD_READOUT_UNPROTECT), "cmd_ack")
       \/ /\ At("readout_unprotect", "cmd_ack")
          /\ IF ~subret.ok THEN Raise("Exception") ELSE CallSub("_wait_ack", "end_ack")
          /\ NoSend /\ NoRead /\ UNCHANGED locals
       \/ /\ At("readout_unprotect", "end_ack")
          /\ IF ~subret.ok THEN Raise("Exception") ELSE Return(TRUE, <<>>)
          /\ NoSend /\ NoRead /\ UNCHANGED locals

\* the next step of the running call is a read or a write on the port
IoNext ==
    \/ sub # "none"
    \/ /\ pc = "start"
       /\ op \notin {"erase_all", "erase_pages"}
       /\ ~(op = "read_memory" /\ BadReadLength(args.length))
       /\ ~(op = "write_memory" /\ BadWriteData(args.data))
    \/ pc \in {"std_all", "ext_all", "std_pages", "ext_pages"}
    \/ /\ subret.ok
       /\ \/ op \in {"read_memory", "write_memory", "go"} /\ pc = "cmd_ack"
          \/ op \in {"read_memory", "write_memory"} /\ pc = "addr_ack"
          \/ pc \in {"std_all_cmd_ack", "ext_all_cmd_ack", "ext_pages_cmd_ack"}
          \/ pc = "std_pages_cmd_ack" /\ FitsBytes(args.pages)
    \/ op = "read_memory" /\ pc = "data" /\ locals.remaining > 0

\* a read or a write on a port that is closed or whose device is gone raises
\* serial.SerialException
io_error ==
    /\ Running /\ ~PortOk /\ IoNext
    /\ Raise("SerialException")
    /\ NoSend /\ NoRead /\ UNCHANGED <<locals, infovars>> /\ EngFrame

Engine ==
    \/ _wait_ack \/ _read_byte \/ sync \/ get_commands \/ get_version \/ get_id
    \/ read_memory \/ write_memory \/ erase_all \/ _standard_erase_all
    \/ _extended_erase_all \/ erase_pages \/ _standard_erase_pages
    \/ _extended_erase_pages \/ go \/ write_unprotect \/ readout_unprotect

\* variant of Invoke that goes on from what the previous call has sent
InvokeResume(o, a) ==
    /\ op' = o /\ args' = a /\ pc' = "start"
    /\ ret' = NoRet /\ sub' = "none" /\ subret' = NoSub /\ locals' = NoLocals
    /\ UNCHANGED <<tx, consumed>>

\* the caller's side of a method call: a fresh activation of method o
Invoke(o, a) ==
    /\ op' = o /\ args' = a /\ pc' = "start"
    /\ ret' = NoRet /\ sub' = "none" /\ subret' = NoSub /\ locals' = NoLocals
    /\ tx' = <<>> /\ consumed' = <<>>

(* ------------------------------------------------------------------ *)
(* Spec: the engine driven by an arbitrary caller                       *)
(* ------------------------------------------------------------------ *)
Addresses == {STM32_FLASH_START, 536871683}
Lengths == (0..SmallLen) \cup ((MAX_RW_LENGTH - 1)..(MAX_RW_LENGTH + 1))
ShortLengths == 0..MaxShort
Payload(seed, n) == [i \in 1..n |-> (5 * i + 64 * seed) % 256]
PageVals == {0, 1, 300}
PageLists == UNION { [1..n -> PageVals] : n \in 1..MaxPages }

Methods ==
    {"sync", "get_commands", "get_version", "get_id", "read_memory", "write_memory",
     "erase_all", "erase_pages", "go", "write_unprotect", "readout_unprotect"}

\* the arguments a caller passes to method o, transfers of the lengths in L
ArgsOf(o, L) ==
    IF o = "read_memory"
    THEN { [NoArgs EXCEPT !.address = a, !.length = l] : a \in Addresses, l \in L }
    ELSE IF o = "write_memory"
    THEN { [NoArgs EXCEPT !.address = a, !.data = Payload(s, l)] :
             a \in Addresses, l \in L, s \in Seeds }
    ELSE IF o = "go"
    THEN { [NoArgs EXCEPT !.address = a] : a \in Addresses }
    ELSE IF o = "erase_pages"
    THEN { [NoArgs EXCEPT !.pages = p] : p \in PageLists }
    ELSE { NoArgs }

\* a caller of the engine: once the previous call has ended, the next one;
\* an answer the previous call did not wait for is lost
Call(M, L) ==
    /\ op = "none" \/ ret.kind # "none"
    /\ \E o \in M : \E a \in ArgsOf(o, L) : Invoke(o, a)
    /\ rxbuf' = rxbuf /\ mcu' = McuIdle
    /\ UNCHANGED <<portvars, mgrvars, reader_paused, readervars, infovars,
                   engvars, wfvars>>

Caller == Call(Methods, ShortLengths)

MemoryCaller == Call({"read_memory", "write_memory"}, Lengths)

\* no session, no reader, no workflow
SessionIdle ==
    /\ rx_bytes = 0 /\ tx_bytes = 0 /\ mgr_reader_paused = FALSE
    /\ running = TRUE /\ hex_mode = FALSE /\ reader_paused = FALSE
    /\ rpc = "off" /\ current_ser = 0 /\ bytes_to_read = 0 /\ buffer = <<>>
    /\ consecutive_errors = 0 /\ local_rx_count = 0
    /\ wf = "none" /\ wpc = "prompt" /\ wargs = NoWArgs /\ wlocals = NoWLocals /\ runs = 0
    /\ history = NoHistory

NoCall ==
    /\ op = "none" /\ pc = "start" /\ args = NoArgs /\ ret = NoRet /\ sub = "none"
    /\ subret = NoSub /\ locals = NoLocals /\ tx = <<>> /\ consumed = <<>>

\* STM32Bootloader.__init__ has just run on an open port with parity none
Init ==
    /\ nports = 1
    /\ port_open = [p \in 1..MaxPorts |-> p = 1]
    /\ port_parity = [p \in 1..MaxPorts |-> IF p = 1 THEN "E" ELSE "N"]
    /\ rxbuf = <<>> /\ mcu = McuIdle /\ chip \in Chips /\ fault = FALSE
    /\ ser = 1
    /\ eng_ser = 1 /\ old_parity = "N"
    /\ extended_erase = FALSE /\ chip_id = -1 /\ bootloader_version = -1
    /\ commands = <<>> /\ enumerated = <<>>
    /\ NoCall /\ SessionIdle /\ NoParse /\ disk = SmallDisk

Next == Caller \/ Engine \/ McuEmit \/ McuStray

Spec == Init /\ [][Next]_vars

(* ------------------------------------------------------------------ *)
(* SpecMemory: read_memory and write_memory at all lengths              *)
(* ------------------------------------------------------------------ *)
NextMemory == MemoryCaller \/ read_memory \/ write_memory \/ _wait_ack \/ McuEmit \/ McuStray

SpecMemory == Init /\ [][NextMemory]_vars

(* ------------------------------------------------------------------ *)
(* SerialManager: connect, disconnect, the background reader            *)
(* ------------------------------------------------------------------ *)
\* connect(port_name, baud_rate): refused while a port is open; otherwise a
\* new Serial object, which serial.Serial(...) may fail to open
AlreadyNever == FALSE

\* connect(): if self.ser and self.ser.is_open
AlreadyConnected == ser # 0 /\ port_open[ser]

connect ==
    /\ wf = "none"
    /\ ~AlreadyConnected
    /\ nports + 1 \in DOMAIN port_open
    /\ \/ /\ ~fault
          /\ nports' = nports + 1
          /\ port_open' = [port_open EXCEPT ![nports + 1] = TRUE]
          /\ rxbuf' = <<>>
          /\ ser' = nports + 1
          /\ rx_bytes' = 0 /\ tx_bytes' = 0
          /\ history' = [history EXCEPT !.rx = 0, !.tx = 0]
          /\ UNCHANGED <<port_parity, chip, fault, filevars>>
       \/ /\ ser' = 0
          /\ UNCHANGED <<portvars, rxbuf, rx_bytes, tx_bytes>>
    /\ UNCHANGED <<mcu, mgr_reader_paused, running, hex_mode, reader_paused, readervars,
                   infovars, engvars, callvars, wfvars>>

\* disconnect(): close the port if it is open, forget it in any case
disconnect ==
    /\ wf = "none"
    /\ ser # 0
    /\ IF port_open[ser]
       THEN /\ port_open' = [port_open EXCEPT ![ser] = FALSE]
            /\ rxbuf' = <<>>
       ELSE UNCHANGED <<port_open, rxbuf>>
    /\ ser' = 0
    /\ UNCHANGED <<nports, port_parity, chip, fault, filevars, history, mcu, rx_bytes,
                   tx_bytes, mgr_reader_paused, running, hex_mode, reader_paused, readervars,
                   infovars, engvars, callvars, wfvars>>

\* what the terminal sends: nothing, a character, a line
Texts == {<<>>, <<65>>, <<65, 10>>}

AfterSendOne(count, data) == count + 1

\* self.tx_bytes += len(data)
AfterSend(count, data) == count + Len(data)

\* send_data(data): refused without an open port; otherwise one write, which
\* succeeds, times out, or fails on a lost device, and then the port is closed
send_data ==
    /\ wf = "none"
    /\ history.sends < MaxSends
    /\ \E data \in Texts :
          IF ser = 0 \/ ~port_open[ser]
          THEN /\ history' = [history EXCEPT !.sends = history.sends + 1,
                                             !.result = "Not connected"]
               /\ UNCHANGED <<port_open, rxbuf, tx_bytes>>
          ELSE IF fault
          THEN /\ port_open' = [port_open EXCEPT ![ser] = FALSE]
               /\ rxbuf' = <<>>
               /\ history' = [history EXCEPT !.sends = history.sends + 1,
                                             !.result = "error"]
               /\ UNCHANGED tx_bytes
          ELSE \/ /\ tx_bytes' = AfterSend(tx_bytes, data)
                  /\ history' = [history EXCEPT !.sends = history.sends + 1,
                                                !.tx = history.tx + Len(data),
                                                !.result = "ok"]
                  /\ UNCHANGED <<port_open, rxbuf>>
               \/ /\ history' = [history EXCEPT !.sends = history.sends + 1,
                                                !.result = "Timeout"]
                  /\ UNCHANGED <<port_open, rxbuf, tx_bytes>>
    /\ UNCHANGED <<nports, port_parity, chip, fault, filevars, mcu, ser, rx_bytes,
                   mgr_reader_paused, running, hex_mode, reader_paused, readervars,
                   infovars, engvars, callvars, wfvars>>

\* the device at the other end transmits a line: an empty one, or one longer
\* than what the reader counts before it publishes its count
BurstLengths == {1, RX_SYNC_THRESHOLD + 1}

Line(n) == [i \in 1..n |-> IF i = n THEN 10 ELSE 65]

Burst ==
    /\ ser # 0 /\ port_open[ser] /\ ~fault
    /\ wf = "none"
    /\ history.bursts < MaxBursts
    /\ \E n \in BurstLengths : rxbuf' = rxbuf \o Line(n)
    /\ history' = [history EXCEPT !.bursts = history.bursts + 1]
    /\ UNCHANGED <<nports, port_open, port_parity, chip, fault, filevars, mcu, mgrvars,
                   reader_paused, readervars, infovars, engvars, callvars, wfvars>>

\* the device is plugged in again, once nothing holds the lost port open
Replug ==
    /\ fault /\ \A p \in DOMAIN port_open : ~port_open[p]
    /\ fault' = FALSE
    /\ UNCHANGED <<nports, port_open, port_parity, chip, filevars, history, linevars,
                   mgrvars, reader_paused, readervars, infovars, engvars, callvars, wfvars>>

\* the device disappears (cable pulled, adapter reset): at the prompt, or as
\* an engine call begins
Unplug ==
    /\ ser # 0 /\ port_open[ser] /\ ~fault
    /\ wf = "none" \/ (Running /\ pc = "start")
    /\ fault' = TRUE
    /\ UNCHANGED <<nports, port_open, port_parity, chip, filevars, history, linevars,
                   mgrvars, reader_paused, readervars, infovars, engvars, callvars, wfvars>>

\* buffer.decode('ascii', errors='ignore') followed by
\* re.sub(r'[\x00-\x08\x0b\x0c\x0e-\x1f]', '', text)
Sanitize(buf) ==
    SelectSeq(buf, LAMBDA b : b < 128 /\ ~(b \in 0..8 \/ b \in {11, 12} \/ b \in 14..31))

\* text.split('\n')[-1]: what follows the last newline
LastPart(text) ==
    LET nl == { i \in 1..Len(text) : text[i] = 10 }
        last == CHOOSE i \in nl : \A j \in nl : j <= i
    IN  IF nl = {} THEN text ELSE SubSeq(text, last + 1, Len(text))

\* variant of Truncate that keeps the oldest bytes
TruncateFront(buf) ==
    IF Len(buf) > MAX_DISPLAY_BUFFER THEN SubSeq(buf, 1, MAX_DISPLAY_BUFFER \div 2) ELSE buf

\* buffer = buffer[-MAX_DISPLAY_BUFFER//2:] once it exceeds MAX_DISPLAY_BUFFER
Truncate(buf) ==
    IF Len(buf) > MAX_DISPLAY_BUFFER
    THEN SubSeq(buf, Len(buf) - (MAX_DISPLAY_BUFFER \div 2) + 1, Len(buf))
    ELSE buf

\* the buffer after the display step: hex mode prints and clears it; text
\* mode prints the complete lines and keeps the last partial one, or prints
\* and clears everything on a packet timeout
Display(buf, hex, is_timeout) ==
    IF buf = <<>> THEN buf
    ELSE IF ~(Contains(buf, 10) \/ is_timeout) THEN buf
    ELSE IF hex THEN <<>>
    ELSE IF Contains(Sanitize(buf), 10) THEN LastPart(Sanitize(buf))
    ELSE IF is_timeout THEN <<>>
    ELSE buf

\* lines 96-168 of one loop iteration, after the read: the periodic counter
\* sync, the overflow cut and the display step
Process(count, buf) ==
    /\ IF count > RX_SYNC_THRESHOLD
       THEN rx_bytes' = rx_bytes + count /\ local_rx_count' = 0
       ELSE rx_bytes' = rx_bytes /\ local_rx_count' = count
    /\ \E is_timeout \in BOOLEAN : buffer' = Display(Truncate(buf), hex_mode, is_timeout)

ReaderFrame ==
    UNCHANGED <<nports, port_parity, chip, fault, filevars, mcu, ser, tx_bytes,
                mgr_reader_paused, running, hex_mode, reader_paused, infovars, engvars,
                callvars, wfvars>>

\* one step of the loop of _serial_reader
_serial_reader ==
    /\ ReaderFrame
    /\ \/ /\ rpc = "top" /\ ~running        \* the loop ends: final count, cleanup
          /\ rx_bytes' = rx_bytes + local_rx_count
          /\ port_open' = IF ser # 0 THEN [port_open EXCEPT ![ser] = FALSE] ELSE port_open
          /\ rpc' = "done"
          /\ UNCHANGED <<rxbuf, current_ser, bytes_to_read, buffer, consecutive_errors,
                         local_rx_count, history>>
       \/ /\ rpc = "top" /\ running
          /\ IF mgr_reader_paused
             THEN UNCHANGED <<rpc, current_ser>>
             ELSE /\ current_ser' = ser
                  /\ rpc' = IF ser # 0 /\ port_open[ser] THEN "poll" ELSE "top"
          /\ UNCHANGED <<port_open, rxbuf, rx_bytes, bytes_to_read, buffer,
                         consecutive_errors, local_rx_count, history>>
       \/ /\ rpc = "poll"                    \* current_ser.in_waiting
          /\ history' = IF ~port_open[current_ser] \/ fault
                         THEN history ELSE [history EXCEPT !.streak = 0]
          /\ IF ~port_open[current_ser] \/ fault
             THEN /\ rpc' = "error"
                  /\ UNCHANGED <<rx_bytes, bytes_to_read, buffer, local_rx_count>>
             ELSE IF Len(rxbuf) > 0
             THEN /\ bytes_to_read' = Min(Len(rxbuf), READ_BUFFER_SIZE)
                  /\ rpc' = "read"
                  /\ UNCHANGED <<rx_bytes, buffer, local_rx_count>>
             ELSE /\ Process(local_rx_count, buffer)
                  /\ rpc' = "top"
                  /\ UNCHANGED bytes_to_read
          /\ UNCHANGED <<port_open, rxbuf, current_ser, consecutive_errors>>
       \/ /\ rpc = "read"                    \* current_ser.read(bytes_to_read)
          /\ IF ~port_open[current_ser] \/ fault
             THEN /\ rpc' = "error"
                  /\ UNCHANGED <<rxbuf, rx_bytes, buffer, consecutive_errors, local_rx_count,
                                 history>>
             ELSE LET k == Min(bytes_to_read, Len(rxbuf))
                      data == SubSeq(rxbuf, 1, k)
                  IN  /\ rxbuf' = SubSeq(rxbuf, k + 1, Len(rxbuf))
                      /\ history' = [history EXCEPT !.rx = history.rx + k]
                      /\ consecutive_errors' = IF k > 0 THEN 0 ELSE consecutive_errors
                      /\ Process(local_rx_count + k, buffer \o data)
                      /\ rpc' = "top"
          /\ bytes_to_read' = 0
          /\ UNCHANGED <<port_open, current_ser>>
       \/ /\ rpc = "error"                   \* except (OSError, serial.SerialException)
          /\ IF consecutive_errors + 1 >= max_consecutive_errors
             THEN /\ rx_bytes' = rx_bytes + local_rx_count
                  /\ local_rx_count' = 0
                  /\ port_open' = IF ser # 0 THEN [port_open EXCEPT ![ser] = FALSE]
                                             ELSE port_open
                  /\ consecutive_errors' = 0
                  /\ history' = [history EXCEPT !.streak = 0]
             ELSE /\ consecutive_errors' = consecutive_errors + 1
                  /\ history' = [history EXCEPT !.streak = history.streak + 1]
                  /\ UNCHANGED <<rx_bytes, local_rx_count, port_open>>
          /\ rpc' = "top"
          /\ UNCHANGED <<rxbuf, current_ser, bytes_to_read, buffer>>

(* ------------------------------------------------------------------ *)
(* hex_parser.py: the firmware parser                                   *)
(* ------------------------------------------------------------------ *)
\* a line of text is a sequence of characters; the lines explored hold hex
\* digits in upper case, ":", "#", " " and the non-digit "G"
HexChars == <<"0", "1", "2", "3", "4", "5", "6", "7", "8", "9", "A", "B", "C", "D", "E", "F">>
IsHexDigit(c) == \E i \in 1..16 : HexChars[i] = c
HexVal(c) == (CHOOSE i \in 1..16 : HexChars[i] = c) - 1

\* the value of a string of hex digits
RECURSIVE HexValue(_)
HexValue(t) ==
    IF t = <<>> THEN 0 ELSE 16 * HexValue(SubSeq(t, 1, Len(t) - 1)) + HexVal(t[Len(t)])

\* int(t, 16); -1 stands for its ValueError
IntHex(t) ==
    IF t # <<>> /\ \A i \in 1..Len(t) : IsHexDigit(t[i]) THEN HexValue(t) ELSE -1

\* bytes.fromhex(t) raises no ValueError: pairs of hex digits
FromHexOk(t) == Len(t) % 2 = 0 /\ \A i \in 1..Len(t) : IsHexDigit(t[i])
FromHex(t) == [i \in 1..(Len(t) \div 2) |-> 16 * HexVal(t[2 * i - 1]) + HexVal(t[2 * i])]

\* t[a:b] of Python: cut at the end of t
PySlice(t, a, b) == SubSeq(t, a + 1, Min(b, Len(t)))

\* line.strip()
RECURSIVE LStrip(_)
LStrip(t) == IF t # <<>> /\ Head(t) = " " THEN LStrip(Tail(t)) ELSE t
RECURSIVE RStrip(_)
RStrip(t) == IF t # <<>> /\ t[Len(t)] = " " THEN RStrip(SubSeq(t, 1, Len(t) - 1)) ELSE t
Strip(t) == RStrip(LStrip(t))

\* int.from_bytes(data, 'big')
RECURSIVE FromBytes(_)
FromBytes(data) ==
    IF data = <<>> THEN 0
    ELSE 256 * FromBytes(SubSeq(data, 1, Len(data) - 1)) + data[Len(data)]

\* segments.append((current_segment[0], bytes(current_segment[1]))), under
\* "if current_segment and len(current_segment[1]) > 0"
Emit(segments, current_segment) ==
    IF ~current_segment.none /\ Len(current_segment.data) > 0
    THEN Append(segments, [address |-> current_segment.address,
                           data |-> current_segment.data])
    ELSE segments

\* record type 0x00
DataRecord(p, address, data) ==
    LET actual_address == p.base_address + address
        current_segment == IF p.current_segment.none
                           THEN [none |-> FALSE, address |-> actual_address, data |-> <<>>]
                           ELSE p.current_segment
        expected_addr == current_segment.address + Len(current_segment.data)
        q == [p EXCEPT !.records = Append(p.records, [address |-> actual_address,
                                                      data |-> data])]
    IN  IF actual_address = expected_addr
        THEN [q EXCEPT !.current_segment =
                 [current_segment EXCEPT !.data = current_segment.data \o data]]
        ELSE [q EXCEPT !.segments = Emit(p.segments, current_segment),
                       !.current_segment =
                           [none |-> FALSE, address |-> actual_address, data |-> data]]

\* one parsed record, by type: data, end of file, extended segment address,
\* extended linear address; any other type is passed over
Record(p, record_type, address, data) ==
    IF record_type = 0 THEN DataRecord(p, address, data)
    ELSE IF record_type = 1
    THEN [p EXCEPT !.segments = Emit(p.segments, p.current_segment), !.status = "returned"]
    ELSE IF record_type = 2 THEN [p EXCEPT !.base_address = FromBytes(data) * 16]
    ELSE IF record_type = 4 THEN [p EXCEPT !.base_address = FromBytes(data) * 65536]
    ELSE p

\* one turn of "for line in f" of parse_hex_file, the locals being p
HexLine(p, raw) ==
    LET line == Strip(raw)
        q == [p EXCEPT !.line_num = p.line_num + 1]
        raised == [q EXCEPT !.status = "raised"]
        byte_count == IntHex(PySlice(line, 1, 3))
        address == IntHex(PySlice(line, 3, 7))
        record_type == IntHex(PySlice(line, 7, 9))
        payload == PySlice(line, 9, 9 + byte_count * 2)
    IN  IF line = <<>> \/ line[1] = "#" THEN q
        ELSE IF line[1] # ":" THEN raised
        ELSE IF Len(line) < 11 THEN raised
        ELSE IF byte_count < 0 \/ address < 0 \/ record_type < 0 THEN raised
        ELSE IF ~FromHexOk(payload) THEN raised
        ELSE Record(q, record_type, address, FromHex(payload))

\* parse_hex_file as a whole: the lines in order until a record ends the
\* file, a line raises or the lines are used up
RECURSIVE ParseHex(_, _)
ParseHex(p, lines) ==
    IF p.status # "open" THEN p
    ELSE IF p.line_num >= Len(lines) THEN [p EXCEPT !.status = "returned"]
    ELSE ParseHex(HexLine(p, lines[p.line_num + 1]), lines)

\* parse_bin_file(filepath, start_address): [(start_address, data)]
ParseBin(p, data, start_address) ==
    [p EXCEPT !.segments = <<[address |-> start_address, data |-> data]>>,
              !.status = "returned"]

\* what the host does besides parsing
hostvars ==
    <<nports, port_open, port_parity, chip, fault, history, linevars, mgrvars, reader_paused,
      readervars, infovars, engvars, callvars, wfvars>>

\* parse_hex_file(filepath): the next line, or the return after the last one
parse_hex_file ==
    /\ filepath.kind = "hex" /\ parse.status = "open"
    /\ parse' = IF parse.line_num < Len(filepath.lines)
                THEN HexLine(parse, filepath.lines[parse.line_num + 1])
                ELSE [parse EXCEPT !.status = "returned"]
    /\ UNCHANGED <<filepath, disk, hostvars>>

parse_bin_file ==
    /\ filepath.kind = "bin" /\ parse.status = "open"
    /\ parse' = ParseBin(parse, filepath.data, filepath.start_address)
    /\ UNCHANGED <<filepath, disk, hostvars>>

\* the text of an Intel HEX record: ":", count, offset and type in hex, the
\* payload in hex, and the checksum that makes the bytes sum to 0 mod 256
ToHex2(n) == <<HexChars[((n \div 16) % 16) + 1], HexChars[(n % 16) + 1]>>
RECURSIVE HexOf(_)
HexOf(data) == IF data = <<>> THEN <<>> ELSE ToHex2(Head(data)) \o HexOf(Tail(data))
RECURSIVE Sum(_)
Sum(data) == IF data = <<>> THEN 0 ELSE Head(data) + Sum(Tail(data))
RecordText(byte_count, address, record_type, data) ==
    LET head == <<byte_count, address \div 256, address % 256, record_type>>
    IN  <<":">> \o HexOf(head) \o HexOf(data)
        \o ToHex2((256 - (Sum(head \o data) % 256)) % 256)

(* ------------------------------------------------------------------ *)
(* flash_commands.py: the foreground workflows                          *)
(* ------------------------------------------------------------------ *)
\* the firmware files a user may name: what os.path.exists and the parser
\* make of each
FileNames ==
    {"missing", "notes.txt", "broken.hex", "blank.hex", "empty.bin", "image.bin", "image.hex",
     "large.bin"}
\* os.path.exists(filepath)
Exists(file) == file \in disk
Supported(file) == file \notin {"notes.txt"}

\* image.bin and image.hex hold what memory image 0 holds from the start of
\* the flash on, image.hex also one byte 16 bytes further on
Image == [i \in 1..MaxShort |-> Mem(0, STM32_FLASH_START + i - 1)]
HexFiles == {"broken.hex", "blank.hex", "image.hex"}
Lines(file) ==
    IF file = "image.hex"
    THEN <<RecordText(2, 0, 4, <<8, 0>>),
           RecordText(Len(Image), 0, 0, Image),
           RecordText(1, 16, 0, <<Mem(0, STM32_FLASH_START + 16)>>),
           RecordText(0, 0, 1, <<>>)>>
    ELSE IF file = "blank.hex" THEN <<RecordText(0, 0, 1, <<>>)>>
    ELSE <<<<"7", "0">>>>
\* large.bin holds one byte more than a write block of that memory image
Large == [i \in 1..STM32_WRITE_BLOCK_SIZE + 1 |-> Mem(0, STM32_FLASH_START + i - 1)]
Content(file) ==
    IF file = "image.bin" THEN Image ELSE IF file = "large.bin" THEN Large ELSE <<>>

\* addr = start_address if start_address else STM32_FLASH_START
StartOf(start_address) ==
    IF start_address # NoAddress /\ start_address # 0 THEN start_address
    ELSE STM32_FLASH_START

\* parse_hex_file(filepath) for .hex, parse_bin_file(filepath, addr) for .bin
Parsed(file, start_address) ==
    IF file \in HexFiles THEN ParseHex(Unparsed, Lines(file))
    ELSE ParseBin(Unparsed, Content(file), StartOf(start_address))
Parses(file, start_address) == Parsed(file, start_address).status = "returned"
Segments(file, start_address) == Parsed(file, start_address).segments

\* the start addresses a user gives with a file: none, 0, or one further
\* into the flash; a .hex file carries its own addresses
StartAddresses(file) ==
    IF file \in {"image.bin"} THEN {NoAddress, 0, STM32_FLASH_START + 256} ELSE {NoAddress}

\* sum(len(data) for _, data in segments)
RECURSIVE TotalSize(_)
TotalSize(segments) ==
    IF segments = <<>> THEN 0 ELSE Len(Head(segments).data) + TotalSize(Tail(segments))

\* STM32Bootloader.__init__(serial_port): a fresh engine; the port goes to
\* even parity, its parity before is remembered
__init__(serial_port) ==
    /\ eng_ser' = serial_port
    /\ extended_erase' = FALSE /\ chip_id' = -1 /\ bootloader_version' = -1
    /\ commands' = <<>> /\ enumerated' = <<>>
    /\ old_parity' = port_parity[serial_port]
    /\ port_parity' = [port_parity EXCEPT ![serial_port] = "E"]

\* STM32Bootloader.close(): if self.ser and self.ser.is_open: restore parity
close ==
    port_parity' = IF eng_ser # 0 /\ port_open[eng_ser]
                   THEN [port_parity EXCEPT ![eng_ser] = old_parity]
                   ELSE port_parity

\* the call of engine method o has ended
Done(o) == op = o /\ ret.kind # "none"
OkAlways == TRUE

\* the engine call returned, it did not raise
Ok == ret.kind = "return"

WfFrame ==
    UNCHANGED <<nports, port_open, chip, fault, filevars, history, rxbuf, mgrvars,
                readervars>>
NoEngine == UNCHANGED <<infovars, engvars, port_parity>>

\* bootloader.o(a) is called from position wpc; the workflow goes on at p
WfCall(o, a, p) ==
    /\ Invoke(o, a) /\ mcu' = McuIdle
    /\ wpc' = p

\* a command at the prompt: "if not ser or not ser.is_open: return", for
\* cmd_flash and cmd_verify "if not os.path.exists(filepath): return",
\* otherwise the gate is set
BeginAnyway(w, a) ==
    /\ wf = "none" /\ runs < MaxRuns
    /\ runs' = runs + 1
    /\ reader_paused' = TRUE
    /\ wf' = w /\ wpc' = "sleep" /\ wargs' = a /\ wlocals' = NoWLocals
    /\ WfFrame /\ NoEngine /\ UNCHANGED <<mcu, callvars>>

Begin(w, a) ==
    /\ wf = "none" /\ runs < MaxRuns
    /\ runs' = runs + 1
    /\ IF a.ser = 0 \/ ~port_open[a.ser] \/ (a.file # "none" /\ ~Exists(a.file))
       THEN UNCHANGED <<reader_paused, wf, wpc, wargs, wlocals>>
       ELSE /\ reader_paused' = TRUE
            /\ wf' = w /\ wpc' = "sleep" /\ wargs' = a /\ wlocals' = NoWLocals
    /\ WfFrame /\ NoEngine /\ UNCHANGED <<mcu, callvars>>

\* time.sleep(0.01): long enough for the reader to end the iteration it is in
Sleep(w, p) ==
    /\ wf = w /\ wpc = "sleep"
    /\ rpc \in {"top", "off", "done"}
    /\ wpc' = p
    /\ WfFrame /\ NoEngine
    /\ UNCHANGED <<mcu, callvars, reader_paused, wf, wargs, wlocals, runs>>

\* with STM32Bootloader(ser) as bootloader: ... bootloader.sync()
Enter(w) ==
    /\ wf = w /\ wpc = "enter"
    /\ __init__(wargs.ser)
    /\ WfCall("sync", NoArgs, "sync")
    /\ wlocals' = [wlocals EXCEPT !.scoped = TRUE]
    /\ WfFrame /\ UNCHANGED <<reader_paused, wf, wargs, runs>>

\* a step inside the scope that starts the next engine call
Then(o, a, p) ==
    /\ WfCall(o, a, p)
    /\ WfFrame /\ NoEngine /\ UNCHANGED <<reader_paused, wf, wargs, wlocals, runs>>

\* a step inside the scope that only moves on, to p
Skip(p, l) ==
    /\ wpc' = p /\ wlocals' = l
    /\ WfFrame /\ NoEngine /\ UNCHANGED <<mcu, callvars, reader_paused, wf, wargs, runs>>

\* the with block is left, by return or by an exception
Leave(outcome) == Skip("exit", [wlocals EXCEPT !.outcome = outcome])

\* an exception outside a with block: on to the finally clause
Abort(outcome) == Skip("finally", [wlocals EXCEPT !.outcome = outcome])

\* STM32Bootloader.__exit__: close()
ScopeExit(w) ==
    /\ wf = w /\ wpc = "exit"
    /\ close
    /\ eng_ser' = 0 /\ wpc' = "finally"
    /\ WfFrame
    /\ UNCHANGED <<infovars, old_parity, mcu, callvars, reader_paused, wf, wargs, wlocals,
                   runs>>

\* finally: serial_handler.reader_paused = False, and back to the prompt
Finally(w) ==
    /\ wf = w /\ wpc = "finally"
    /\ reader_paused' = FALSE
    /\ wf' = "none" /\ wpc' = "prompt" /\ wargs' = NoWArgs
    /\ wlocals' = NoWLocals
    /\ op' = "none" /\ pc' = "start" /\ args' = NoArgs /\ ret' = NoRet /\ sub' = "none"
    /\ subret' = NoSub /\ locals' = NoLocals /\ tx' = <<>> /\ consumed' = <<>>
    /\ mcu' = McuIdle
    /\ WfFrame /\ NoEngine /\ UNCHANGED runs

\* variant of AfterSync that goes on to get_commands whatever sync returned
AfterSyncAnyway(w) ==
    /\ wf = w /\ wpc = "sync" /\ Done("sync")
    /\ Then("get_commands", NoArgs, "get_commands")

\* the sync of cmd_chip_info, cmd_verify, cmd_erase, cmd_read_memory and
\* cmd_go has ended: "if not bootloader.sync(): return", an exception leaves
\* the scope as well; otherwise bootloader.get_commands() is next
AfterSync(w) ==
    /\ wf = w /\ wpc = "sync" /\ Done("sync")
    /\ IF Ok /\ ret.ok
       THEN Then("get_commands", NoArgs, "get_commands")
       ELSE Leave(IF Ok THEN "sync failed" ELSE "exception")

cmd_chip_info ==
    \/ \E s \in {ser} : Begin("cmd_chip_info", [NoWArgs EXCEPT !.ser = s])
    \/ Sleep("cmd_chip_info", "enter")
    \/ Enter("cmd_chip_info")
    \/ AfterSync("cmd_chip_info")
    \/ /\ wf = "cmd_chip_info" /\ wpc = "get_commands" /\ Done("get_commands")
       /\ IF Ok THEN Then("get_id", NoArgs, "get_id") ELSE Leave("exception")
    \/ /\ wf = "cmd_chip_info" /\ wpc = "get_id" /\ Done("get_id")
       /\ Leave(IF Ok THEN "ok" ELSE "exception")
    \/ ScopeExit("cmd_chip_info")
    \/ Finally("cmd_chip_info")

cmd_erase ==
    \/ \E s \in {ser} : Begin("cmd_erase", [NoWArgs EXCEPT !.ser = s])
    \/ Sleep("cmd_erase", "enter")
    \/ Enter("cmd_erase")
    \/ AfterSync("cmd_erase")
    \/ /\ wf = "cmd_erase" /\ wpc = "get_commands" /\ Done("get_commands")
       /\ IF Ok THEN Then("erase_all", NoArgs, "erase_all") ELSE Leave("exception")
    \/ /\ wf = "cmd_erase" /\ wpc = "erase_all" /\ Done("erase_all")
       /\ Leave(IF Ok THEN "ok" ELSE "exception")
    \/ ScopeExit("cmd_erase")
    \/ Finally("cmd_erase")

cmd_go ==
    \/ \E s \in {ser}, a \in {STM32_FLASH_START} :
          Begin("cmd_go", [NoWArgs EXCEPT !.ser = s, !.address = a])
    \/ Sleep("cmd_go", "enter")
    \/ Enter("cmd_go")
    \/ AfterSync("cmd_go")
    \/ /\ wf = "cmd_go" /\ wpc = "get_commands" /\ Done("get_commands")
       /\ IF Ok THEN Then("go", [NoArgs EXCEPT !.address = wargs.address], "go")
               ELSE Leave("exception")
    \/ /\ wf = "cmd_go" /\ wpc = "go" /\ Done("go")
       /\ Leave(IF Ok THEN "ok" ELSE "exception")
    \/ ScopeExit("cmd_go")
    \/ Finally("cmd_go")

\* bootloader.read_memory(address + offset, min(256, length - offset))
ReadChunk(address, offset, length) ==
    [NoArgs EXCEPT !.address = address + offset, !.length = Min(256, length - offset)]

cmd_read_memory ==
    \/ \E s \in {ser}, a \in {STM32_FLASH_START}, l \in 1..MaxShort :
          Begin("cmd_read_memory", [NoWArgs EXCEPT !.ser = s, !.address = a, !.length = l])
    \/ Sleep("cmd_read_memory", "enter")
    \/ Enter("cmd_read_memory")
    \/ AfterSync("cmd_read_memory")
    \/ /\ wf = "cmd_read_memory" /\ wpc = "get_commands" /\ Done("get_commands")
       /\ IF Ok THEN Then("read_memory", ReadChunk(wargs.address, 0, wargs.length),
                          "read_memory")
               ELSE Leave("exception")
    \/ /\ wf = "cmd_read_memory" /\ wpc = "read_memory" /\ Done("read_memory")
       /\ LET offset == wlocals.offset + args.length
              l == [wlocals EXCEPT !.data = wlocals.data \o ret.data, !.offset = offset]
          IN  IF ~Ok THEN Leave("exception")
              ELSE IF offset < wargs.length
              THEN /\ WfCall("read_memory", ReadChunk(wargs.address, offset, wargs.length),
                             "read_memory")
                   /\ wlocals' = l
                   /\ WfFrame /\ NoEngine /\ UNCHANGED <<reader_paused, wf, wargs, runs>>
              ELSE Skip("exit", [l EXCEPT !.outcome = "ok"])
    \/ ScopeExit("cmd_read_memory")
    \/ Finally("cmd_read_memory")

\* the position of the nested loops "for address, data in segments: while
\* offset < len(data)" from (seg, offset) on: the next chunk, or past the end
RECURSIVE Seek(_, _, _)
Seek(segments, seg, offset) ==
    IF seg > Len(segments) THEN [seg |-> seg, offset |-> 0]
    ELSE IF offset < Len(segments[seg].data) THEN [seg |-> seg, offset |-> offset]
    ELSE Seek(segments, seg + 1, 0)

\* variant of ChunkAt that writes every chunk at the segment's address
ChunkAtStart(segments, pos) ==
    LET data == segments[pos.seg].data
        chunk_size == Min(STM32_WRITE_BLOCK_SIZE, Len(data) - pos.offset)
    IN  [address |-> segments[pos.seg].address,
         data |-> SubSeq(data, pos.offset + 1, pos.offset + chunk_size)]

\* the chunk at a position: address + offset and data[offset:offset + chunk_size]
ChunkAt(segments, pos) ==
    LET data == segments[pos.seg].data
        chunk_size == Min(STM32_WRITE_BLOCK_SIZE, Len(data) - pos.offset)
    IN  [address |-> segments[pos.seg].address + pos.offset,
         data |-> SubSeq(data, pos.offset + 1, pos.offset + chunk_size)]

Here == [seg |-> wlocals.seg, offset |-> wlocals.offset]
At0(l) == [l EXCEPT !.seg = 1, !.offset = 0, !.errors = 0, !.chunk_failures = 0]

\* variant of Mismatch that looks at the first byte only
MismatchFirst(actual, expected) == actual[1] # expected[1]

\* if actual != expected: the chunk read back differs from the file's
Mismatch(actual, expected) == actual # expected

\* the locals after a failed call on the current chunk
Failed(l) ==
    [l EXCEPT !.errors = l.errors + 1, !.chunk_failures = l.chunk_failures + 1]

\* the locals when the loop moves on to the chunk at pos
Moved(l, pos) ==
    [l EXCEPT !.seg = pos.seg, !.offset = pos.offset, !.chunk_failures = 0]

\* the locals after write_memory returned: bytes_written += chunk_size
Wrote(l) ==
    [l EXCEPT !.bytes_written = l.bytes_written + Len(args.data),
              !.written = Append(l.written, [address |-> args.address, data |-> args.data])]

\* the locals after the chunk read back was found equal to the file's
Compared(l) ==
    [l EXCEPT !.readback = Append(l.readback, [address |-> args.address, data |-> ret.data])]

\* the with block is left with the locals l
LeaveWith(l, outcome) == Skip("exit", [l EXCEPT !.outcome = outcome])
ReadArgs(c) == [NoArgs EXCEPT !.address = c.address, !.length = Len(c.data)]
WriteArgs(c) == [NoArgs EXCEPT !.address = c.address, !.data = c.data]

\* a step inside the scope that starts engine call o and updates the locals
ThenWith(o, a, p, l) ==
    /\ WfCall(o, a, p) /\ wlocals' = l
    /\ WfFrame /\ NoEngine /\ UNCHANGED <<reader_paused, wf, wargs, runs>>

\* the verify loop of cmd_verify, from position pos on
VerifyFrom(l, pos, p) ==
    IF pos.seg > Len(wlocals.segments)
    THEN LeaveWith(l, "ok")
    ELSE ThenWith("read_memory", ReadArgs(ChunkAt(wlocals.segments, pos)), p, l)

cmd_verify ==
    \/ \E s \in {ser}, f \in FileNames : \E a \in StartAddresses(f) :
          Begin("cmd_verify", [NoWArgs EXCEPT !.ser = s, !.file = f, !.start_address = a])
    \/ Sleep("cmd_verify", "parse")
    \/ /\ wf = "cmd_verify" /\ wpc = "parse"
       /\ IF ~Supported(wargs.file) THEN Abort("unsupported")
          ELSE IF ~Parses(wargs.file, wargs.start_address) THEN Abort("exception")
          ELSE Skip("enter", [wlocals EXCEPT
                                 !.segments = Segments(wargs.file, wargs.start_address)])
    \/ Enter("cmd_verify")
    \/ AfterSync("cmd_verify")
    \/ /\ wf = "cmd_verify" /\ wpc = "get_commands" /\ Done("get_commands")
       /\ IF Ok THEN VerifyFrom(Moved(wlocals, Seek(wlocals.segments, 1, 0)),
                                 Seek(wlocals.segments, 1, 0), "read_memory")
               ELSE Leave("exception")
    \/ /\ wf = "cmd_verify" /\ wpc = "read_memory" /\ Done("read_memory")
       /\ LET pos == Seek(wlocals.segments, wlocals.seg, wlocals.offset + args.length)
          IN  IF ~Ok THEN LeaveWith(Failed(wlocals), "exception")
              ELSE IF Mismatch(ret.data, ChunkAt(wlocals.segments, Here).data)
              THEN LeaveWith([wlocals EXCEPT !.reported = args.address], "mismatch")
              ELSE VerifyFrom(Moved(Compared(wlocals), pos), pos, "read_memory")
    \/ ScopeExit("cmd_verify")
    \/ Finally("cmd_verify")

\* flash_firmware(ser, filepath, verify=True, erase=True, go=True), called by
\* cmd_flash; every exception it raises ends in cmd_flash's except clause
flash_firmware ==
    /\ wf = "cmd_flash"
    /\ \/ /\ wpc = "flash_firmware"     \* the checks and the parse before the scope
          /\ IF \/ ~port_open[wargs.ser]
                \/ ~Exists(wargs.file) \/ ~Supported(wargs.file)
                \/ ~Parses(wargs.file, wargs.start_address)
                \/ Segments(wargs.file, wargs.start_address) = <<>>
                \/ TotalSize(Segments(wargs.file, wargs.start_address)) = 0
             THEN Abort("exception")
             ELSE Skip("enter", [wlocals EXCEPT
                                 !.segments = Segments(wargs.file, wargs.start_address)])
       \/ /\ wpc = "sync" /\ Done("sync")
          /\ IF Ok /\ ret.ok THEN Then("get_commands", NoArgs, "get_commands")
                             ELSE Leave("exception")
       \/ /\ wpc = "get_commands" /\ Done("get_commands")
          /\ IF Ok THEN Then("get_id", NoArgs, "get_id")
                   ELSE Then("erase_all", NoArgs, "erase_all")
       \/ /\ wpc = "get_id" /\ Done("get_id")
          /\ Then("erase_all", NoArgs, "erase_all")
       \/ /\ wpc = "erase_all" /\ Done("erase_all")
          /\ IF Ok
             THEN ThenWith("write_memory",
                           WriteArgs(ChunkAt(wlocals.segments, Seek(wlocals.segments, 1, 0))),
                           "write_memory", At0(wlocals))
             ELSE Leave("exception")
       \/ /\ wpc = "write_memory" /\ Done("write_memory")
          /\ LET pos == Seek(wlocals.segments, wlocals.seg,
                             wlocals.offset + Len(args.data))
             IN  IF ~Ok
                 THEN IF wlocals.errors + 1 >= 3
                      THEN LeaveWith(Failed(wlocals), "exception")
                      ELSE ThenWith("write_memory", args, "write_memory", Failed(wlocals))
                 ELSE IF pos.seg <= Len(wlocals.segments)
                 THEN ThenWith("write_memory", WriteArgs(ChunkAt(wlocals.segments, pos)),
                               "write_memory", Moved(Wrote(wlocals), pos))
                 ELSE ThenWith("read_memory",
                               ReadArgs(ChunkAt(wlocals.segments,
                                                Seek(wlocals.segments, 1, 0))),
                               "read_memory", At0(Wrote(wlocals)))
       \/ /\ wpc = "read_memory" /\ Done("read_memory")
          /\ LET pos == Seek(wlocals.segments, wlocals.seg,
                             wlocals.offset + args.length)
             IN  IF ~Ok
                 THEN IF wlocals.errors + 1 >= 3
                      THEN LeaveWith(Failed(wlocals), "exception")
                      ELSE ThenWith("read_memory", args, "read_memory", Failed(wlocals))
                 ELSE IF Mismatch(ret.data, ChunkAt(wlocals.segments, Here).data)
                 THEN LeaveWith([wlocals EXCEPT !.reported = args.address], "exception")
                 ELSE IF pos.seg <= Len(wlocals.segments)
                 THEN ThenWith("read_memory", ReadArgs(ChunkAt(wlocals.segments, pos)),
                               "read_memory", Moved(Compared(wlocals), pos))
                 ELSE ThenWith("go",
                               [NoArgs EXCEPT !.address = wlocals.segments[1].address],
                               "go", Compared(wlocals))
       \/ /\ wpc = "go" /\ Done("go")
          /\ Leave("ok")

cmd_flash ==
    \/ \E s \in {ser}, f \in FileNames : \E a \in StartAddresses(f) :
          Begin("cmd_flash", [NoWArgs EXCEPT !.ser = s, !.file = f, !.start_address = a])
    \/ Sleep("cmd_flash", "flash_firmware")
    \/ Enter("cmd_flash")
    \/ ScopeExit("cmd_flash")
    \/ Finally("cmd_flash")

(* ------------------------------------------------------------------ *)
(* SpecSession: the interactive program, reader and foreground          *)
(* ------------------------------------------------------------------ *)
\* the bootloader of the interactive runs: the one with the extended erase
SessionChip == CHOOSE c \in Chips : Contains(c.cmds, STM32_CMD_EXTENDED_ERASE)

NoEngineObject ==
    /\ eng_ser = 0 /\ old_parity = "N"
    /\ extended_erase = FALSE /\ chip_id = -1 /\ bootloader_version = -1
    /\ commands = <<>> /\ enumerated = <<>>

\* at startup: no port, no engine, the reader thread running
InitSession ==
    /\ nports = 0
    /\ port_open = [p \in 1..MaxPorts |-> FALSE]
    /\ port_parity = [p \in 1..MaxPorts |-> "N"]
    /\ rxbuf = <<>> /\ mcu = McuIdle /\ chip = SessionChip /\ fault = FALSE
    /\ ser = 0 /\ rx_bytes = 0 /\ tx_bytes = 0 /\ mgr_reader_paused = FALSE
    /\ running = TRUE /\ hex_mode = FALSE /\ reader_paused = FALSE
    /\ rpc = "top" /\ current_ser = 0 /\ bytes_to_read = 0 /\ buffer = <<>>
    /\ consecutive_errors = 0 /\ local_rx_count = 0
    /\ NoEngineObject /\ NoCall /\ NoParse /\ disk = SmallDisk
    /\ wf = "none" /\ wpc = "prompt" /\ wargs = NoWArgs /\ wlocals = NoWLocals /\ runs = 0
    /\ history = NoHistory

\* the engine methods the four short workflows call
SessionEngine ==
    \/ _wait_ack \/ _read_byte \/ sync \/ get_commands \/ get_id
    \/ read_memory \/ erase_all \/ _extended_erase_all \/ go \/ io_error

NextSession ==
    \/ connect \/ disconnect \/ Unplug \/ _serial_reader
    \/ cmd_chip_info \/ cmd_erase \/ cmd_read_memory \/ cmd_go
    \/ SessionEngine \/ McuEmit

SpecSession == InitSession /\ [][NextSession]_vars

(* ------------------------------------------------------------------ *)
(* run_cli_command: the one-shot invocation                            *)
(* ------------------------------------------------------------------ *)
\* whether the function run_cli_command calls raises: flash_firmware raises
\* on every failure; cmd_erase, cmd_go and cmd_chip_info catch every
\* exception, print a message and return
Raises(w, outcome) == w = "cmd_flash" /\ outcome # "ok"

\* except Exception: sys.exit(1); otherwise the function returns and the
\* interpreter exits with 0
ExitCode(w, outcome) == IF Raises(w, outcome) THEN 1 ELSE 0

(* ------------------------------------------------------------------ *)
(* SpecLink: the terminal alone, connecting more than once              *)
(* ------------------------------------------------------------------ *)
\* at startup, with MaxLinks serial objects still to be made
InitLink ==
    /\ nports = 0
    /\ port_open = [p \in 1..MaxLinks |-> FALSE]
    /\ port_parity = [p \in 1..MaxLinks |-> "N"]
    /\ rxbuf = <<>> /\ mcu = McuIdle /\ chip = SessionChip /\ fault = FALSE
    /\ ser = 0 /\ rx_bytes = 0 /\ tx_bytes = 0 /\ mgr_reader_paused = FALSE
    /\ running = TRUE /\ hex_mode = FALSE /\ reader_paused = FALSE
    /\ rpc = "top" /\ current_ser = 0 /\ bytes_to_read = 0 /\ buffer = <<>>
    /\ consecutive_errors = 0 /\ local_rx_count = 0
    /\ NoEngineObject /\ NoCall /\ NoParse /\ disk = SmallDisk
    /\ wf = "none" /\ wpc = "prompt" /\ wargs = NoWArgs /\ wlocals = NoWLocals /\ runs = 0
    /\ history = NoHistory

NextLink ==
    \/ connect \/ disconnect \/ send_data \/ _serial_reader
    \/ Burst \/ Unplug \/ Replug

SpecLink == InitLink /\ [][NextLink]_vars

(* ------------------------------------------------------------------ *)
(* SpecFlash: cmd_flash and cmd_verify on a connected port              *)
(* ------------------------------------------------------------------ *)
\* a port is connected, the prompt is idle, the reader is left out
InitFlash ==
    /\ nports = 1
    /\ port_open = [p \in 1..MaxPorts |-> p = 1]
    /\ port_parity = [p \in 1..MaxPorts |-> "N"]
    /\ rxbuf = <<>> /\ mcu = McuIdle /\ chip \in Chips /\ fault = FALSE
    /\ ser = 1
    /\ NoEngineObject /\ NoCall /\ SessionIdle /\ NoParse /\ disk = FullDisk

FlashEngine ==
    \/ _wait_ack \/ _read_byte \/ sync \/ get_commands \/ get_id
    \/ read_memory \/ write_memory \/ erase_all \/ _standard_erase_all
    \/ _extended_erase_all \/ go

NextFlash == cmd_flash \/ flash_firmware \/ cmd_verify \/ FlashEngine \/ McuEmit

SpecFlash == InitFlash /\ [][NextFlash]_vars

(* ------------------------------------------------------------------ *)
(* SpecPrompt: every command of the prompt, the reader left out        *)
(* ------------------------------------------------------------------ *)
\* at startup: no port, no engine
InitPrompt ==
    /\ nports = 0
    /\ port_open = [p \in 1..MaxPorts |-> FALSE]
    /\ port_parity = [p \in 1..MaxPorts |-> "N"]
    /\ rxbuf = <<>> /\ mcu = McuIdle /\ chip = SessionChip /\ fault = FALSE
    /\ ser = 0
    /\ NoEngineObject /\ NoCall /\ SessionIdle /\ NoParse /\ disk = SmallDisk

NextPrompt ==
    \/ connect \/ disconnect \/ send_data \/ Unplug
    \/ cmd_chip_info \/ cmd_erase \/ cmd_read_memory \/ cmd_go
    \/ cmd_flash \/ flash_firmware \/ cmd_verify
    \/ FlashEngine \/ io_error \/ McuEmit

SpecPrompt == InitPrompt /\ [][NextPrompt]_vars

(* ------------------------------------------------------------------ *)
(* SpecLive: the workflows under fairness, on any MCU                  *)
(* ------------------------------------------------------------------ *)
\* line noise while the engine waits for an acknowledgement: further bytes
\* that are neither ACK nor NACK, up to MaxNoise of them
McuNoise ==
    /\ Running /\ sub = "_wait_ack" /\ rxbuf = <<>>
    /\ Len(SelectSeq(consumed, LAMBDA c : c.b = Head(Stray))) < MaxNoise
    /\ rxbuf' = Stray
    /\ UNCHANGED <<mcu, portvars, mgrvars, reader_paused, readervars, infovars, engvars,
                   callvars, wfvars>>

\* a port is connected to the bootloader of the interactive runs, the prompt
\* is idle
InitLive ==
    /\ nports = 1
    /\ port_open = [p \in 1..MaxPorts |-> p = 1]
    /\ port_parity = [p \in 1..MaxPorts |-> "N"]
    /\ rxbuf = <<>> /\ mcu = McuIdle /\ chip = SessionChip /\ fault = FALSE
    /\ ser = 1
    /\ NoEngineObject /\ NoCall /\ SessionIdle /\ NoParse /\ disk = SmallDisk

\* the steps of the foreground thread
Program ==
    \/ cmd_chip_info \/ cmd_erase \/ cmd_read_memory \/ cmd_go
    \/ cmd_flash \/ flash_firmware \/ cmd_verify
    \/ FlashEngine

NextLive == Program \/ McuEmit \/ McuNoise

\* the thread is parsing the firmware file
Parsing ==
    \/ wf = "cmd_flash" /\ wpc = "flash_firmware"
    \/ wf = "cmd_verify" /\ wpc = "parse"

\* the parse ends: it reads a finite file line by line
ParseEnds == Parsing /\ wpc' \in {"enter", "finally"}

\* the foreground thread keeps running: each of its steps takes a bounded
\* time, a read at most the port's timeout of 0.1 s, and the loops of
\* _wait_ack, _read_byte and read_memory test their deadline at each
\* iteration. Nothing is assumed of the MCU.
SpecLive ==
    InitLive /\ [][NextLive]_vars /\ WF_vars(~Parsing /\ Program) /\ WF_wpc(ParseEnds)

(* ------------------------------------------------------------------ *)
(* SpecSync: the workflows on a port with input left unread             *)
(* ------------------------------------------------------------------ *)
\* what the driver's input buffer may hold when a workflow begins: nothing,
\* or a byte the device sent while nobody read the port
StaleInputs == {<<>>, <<STM32_ACK>>, <<STM32_NACK>>}

InitSync ==
    /\ nports = 1
    /\ port_open = [p \in 1..MaxPorts |-> p = 1]
    /\ port_parity = [p \in 1..MaxPorts |-> "N"]
    /\ rxbuf \in StaleInputs /\ mcu = McuIdle /\ chip = SessionChip /\ fault = FALSE
    /\ ser = 1
    /\ NoEngineObject /\ NoCall /\ SessionIdle /\ NoParse /\ disk = SmallDisk

NextSync == Program \/ McuEmit

SpecSync == InitSync /\ [][NextSync]_vars

(* ------------------------------------------------------------------ *)
(* SpecTerm: the display of what the device sends                       *)
(* ------------------------------------------------------------------ *)
\* what the device sends at a time: a partial line, a complete line, a line
\* and the start of the next, and bytes the text display scrubs
Fragments == {<<65>>, <<65, 10>>, <<66, 10, 67>>, <<7, 200, 68>>}

Arrive ==
    /\ ser # 0 /\ port_open[ser] /\ ~fault
    /\ history.bursts < MaxBursts
    /\ \E f \in Fragments : rxbuf' = rxbuf \o f
    /\ history' = [history EXCEPT !.bursts = history.bursts + 1]
    /\ UNCHANGED <<nports, port_open, port_parity, chip, fault, filevars, mcu, mgrvars,
                   reader_paused, readervars, infovars, engvars, callvars, wfvars>>

\* at startup, in text mode or in hex mode
InitTerm ==
    /\ nports = 0
    /\ port_open = [p \in 1..MaxPorts |-> FALSE]
    /\ port_parity = [p \in 1..MaxPorts |-> "N"]
    /\ rxbuf = <<>> /\ mcu = McuIdle /\ chip = SessionChip /\ fault = FALSE
    /\ ser = 0 /\ rx_bytes = 0 /\ tx_bytes = 0 /\ mgr_reader_paused = FALSE
    /\ running = TRUE /\ hex_mode \in BOOLEAN /\ reader_paused = FALSE
    /\ rpc = "top" /\ current_ser = 0 /\ bytes_to_read = 0 /\ buffer = <<>>
    /\ consecutive_errors = 0 /\ local_rx_count = 0
    /\ NoEngineObject /\ NoCall /\ NoParse /\ disk = SmallDisk
    /\ wf = "none" /\ wpc = "prompt" /\ wargs = NoWArgs /\ wlocals = NoWLocals /\ runs = 0
    /\ history = NoHistory

NextTerm == connect \/ disconnect \/ _serial_reader \/ Arrive \/ Unplug \/ Replug

\* the display step finds the packet timeout elapsed and clears the buffer
FlushOnTimeout == _serial_reader /\ buffer # <<>> /\ buffer' = <<>>

\* The reader is a thread of its own and every iteration of its loop takes
\* bounded time (its sleeps and the port's read timeout), so it keeps taking
\* steps; a buffer that stays non-empty is looked at again and again, and
\* the clock passes last_rx_time + PACKET_TIMEOUT once no byte arrives.
SpecTerm ==
    InitTerm /\ [][NextTerm]_vars /\ WF_vars(_serial_reader) /\ SF_vars(FlushOnTimeout)

(* ------------------------------------------------------------------ *)
(* SpecFlood: long input without a newline                              *)
(* ------------------------------------------------------------------ *)
\* how much the device sends at a time: one byte, or as much as one read takes
FloodLengths == {1, READ_BUFFER_SIZE}

\* n bytes of text without a newline, no two neighbours alike
Stream(n) == [i \in 1..n |-> 65 + (i % 7)]

Flood ==
    /\ ser # 0 /\ port_open[ser] /\ ~fault
    /\ history.bursts < MaxFloods
    /\ \E n \in FloodLengths : rxbuf' = rxbuf \o Stream(n)
    /\ history' = [history EXCEPT !.bursts = history.bursts + 1]
    /\ UNCHANGED <<nports, port_open, port_parity, chip, fault, filevars, mcu, mgrvars,
                   reader_paused, readervars, infovars, engvars, callvars, wfvars>>

NextFlood == connect \/ _serial_reader \/ Flood

SpecFlood == InitTerm /\ [][NextFlood]_vars

(* ------------------------------------------------------------------ *)
(* SpecHex: the parser on arbitrary small files                         *)
(* ------------------------------------------------------------------ *)
\* the lines a HEX file is made of: data records at offset 0, next to it at
\* 2, apart from it at 16, and one without payload; the end-of-file record;
\* the two address records; a comment and a blank line; and malformed lines:
\* no colon, too short, a non-hex digit, a count that exceeds the payload
TestLines ==
    { RecordText(2, 0, 0, <<7, 10>>), RecordText(1, 2, 0, <<13>>),
      RecordText(1, 16, 0, <<55>>), RecordText(0, 32, 0, <<>>),
      RecordText(0, 0, 1, <<>>),
      RecordText(2, 0, 4, <<8, 0>>), RecordText(2, 0, 2, <<16, 0>>),
      <<"#", "7">>, <<" ">>,
      <<"7", "0">>, <<":", "0", "0">>,
      <<":", "0", "G", "0", "0", "0", "0", "0", "0", "0", "0">>,
      <<":", "0", "3", "0", "0", "0", "0", "0", "0", "0", "7", "F", "6">> }

\* the files of up to MaxLines such lines
RECURSIVE TextFiles(_)
TextFiles(n) ==
    IF n = 0 THEN {<<>>}
    ELSE LET shorter == TextFiles(n - 1)
         IN  shorter \cup {Append(f, l) : f \in {g \in shorter : Len(g) = n - 1},
                                           l \in TestLines}

\* a .hex file of such lines, or a .bin file of 0..MaxShort bytes with the
\* start address the caller passes
InitHex ==
    /\ nports = 0
    /\ port_open = [p \in 1..MaxPorts |-> FALSE]
    /\ port_parity = [p \in 1..MaxPorts |-> "N"]
    /\ rxbuf = <<>> /\ mcu = McuIdle /\ chip = SessionChip /\ fault = FALSE
    /\ ser = 0
    /\ NoEngineObject /\ NoCall /\ SessionIdle /\ disk = SmallDisk
    /\ \/ \E f \in TextFiles(MaxLines) :
             filepath = [NoFile EXCEPT !.kind = "hex", !.lines = f]
       \/ \E n \in 0..MaxShort, a \in {0, STM32_FLASH_START} :
             filepath = [NoFile EXCEPT !.kind = "bin", !.data = SubSeq(Image, 1, n),
                                       !.start_address = a]
    /\ parse = Unparsed

NextHex == parse_hex_file \/ parse_bin_file

SpecHex == InitHex /\ [][NextHex]_vars

(* ------------------------------------------------------------------ *)
(* Properties                                                           *)
(* ------------------------------------------------------------------ *)
Last(s) == s[Len(s)]
Front(s) == SubSeq(s, 1, Len(s) - 1)
Ended == op # "none" /\ ret.kind # "none"
Returned == op # "none" /\ ret.kind = "return"

\* a workflow is in its gated section: it has executed
\* "serial_handler.reader_paused = True" and slept, and has not yet executed
\* "serial_handler.reader_paused = False"
Gated == wf # "none" /\ wpc # "sleep"

\* the reader thread takes bytes from the port in this step
ReaderReads == rpc = "read" /\ rpc' = "top" /\ Len(rxbuf') < Len(rxbuf)

\* C1: while a workflow is between setting the pause gate and clearing it,
\* the background reader performs no read on the port, so it consumes no
\* byte the MCU sends in answer to a protocol step.
C1_ReaderKeepsOff == [][Gated => ~ReaderReads]_vars

\* C2: when a bootloader session scope has been left, on whatever path, the
\* parity of its port equals the parity the port had when the scope was
\* entered.
C2_ParityRestored ==
    (wf # "none" /\ wpc = "finally" /\ wlocals.scoped)
        => port_parity[wargs.ser] = old_parity

\* C3: a workflow sets the pause gate before its first protocol byte is
\* written: whenever a workflow's engine call has written to the port, the
\* flag the reader tests at the top of its loop is set.
C3_GateSetBeforeFirstByte == (wf # "none" /\ tx # <<>>) => mgr_reader_paused

\* the opcodes of the protocol's commands
CommandOpcodes ==
    {STM32_CMD_GET, STM32_CMD_GET_VERSION, STM32_CMD_GET_ID, STM32_CMD_READ_MEMORY,
     STM32_CMD_GO, STM32_CMD_WRITE_MEMORY, STM32_CMD_ERASE, STM32_CMD_EXTENDED_ERASE,
     STM32_CMD_WRITE_UNPROTECT, STM32_CMD_READOUT_UNPROTECT}

\* C4: in every call, the first write of every method but sync is a command
\* frame, and every command frame is two bytes: an opcode of the protocol and
\* its bitwise complement 255 - opcode. Only sync's write is a single byte,
\* and that byte is 0x7F.
C4_CommandComplement ==
    \A i \in 1..Len(tx) :
        /\ (tx[i].kind \in {"cmd", "sync"}) = (i = 1)
        /\ (i = 1) => (tx[i].kind = "sync") = (op = "sync")
        /\ tx[i].kind = "cmd" =>
              /\ Len(tx[i].bytes) = 2
              /\ tx[i].bytes[1] \in CommandOpcodes
              /\ tx[i].bytes[2] = 255 - tx[i].bytes[1]
        /\ tx[i].kind = "sync" => tx[i].bytes = <<127>>
        /\ Len(tx[i].bytes) = 1 => tx[i].kind = "sync"

\* a Readout Unprotect exchange has completed: 0x92 went out with 0x6D
C4_Witness ==
    /\ op = "readout_unprotect" /\ Returned
    /\ tx = <<[kind |-> "cmd", bytes |-> <<146, 109>>]>>

XorRule(block) == Len(block) >= 2 /\ Last(block) = XorAll(Front(block))

\* C5 as stated: every address block, write data block, page-list block and
\* mass-erase parameter block ends with the XOR of all its preceding bytes.
C5_AllBlocksXor ==
    \A i \in 1..Len(tx) :
        tx[i].kind \in {"addr", "data", "pages", "erase"} => XorRule(tx[i].bytes)

\* C5, amended: every address block, write data block, page-list block and the
\* extended mass-erase block FF FF 00 ends with the XOR of all its preceding
\* bytes; the standard mass-erase block is the single byte FF followed by its
\* complement 00.
C5_BlockChecksums ==
    \A i \in 1..Len(tx) :
        /\ tx[i].kind \in {"addr", "data", "pages"} => XorRule(tx[i].bytes)
        /\ tx[i].kind = "erase" =>
              IF tx[1].bytes[1] = STM32_CMD_EXTENDED_ERASE
              THEN tx[i].bytes = <<255, 255, 0>> /\ XorRule(tx[i].bytes)
              ELSE tx[i].bytes = <<255, 0>> /\ ~XorRule(tx[i].bytes)

\* a standard mass erase has completed
C5_Witness ==
    /\ op = "erase_all" /\ Returned /\ ~extended_erase
    /\ Len(tx) = 2 /\ tx[2].kind = "erase"

\* C6: the data block write_memory sends for a payload of 1..256 bytes is one
\* length byte, the payload, 0..3 bytes 0xFF that fill it up to the next
\* multiple of 4, and a checksum; the length byte is the padded length - 1 and
\* lies in 0..255, the padded length is at most 256.
C6_PaddedDataBlock ==
    \A i \in 1..Len(tx) :
        tx[i].kind = "data" =>
            LET d == args.data
                b == tx[i].bytes
                padded == Len(b) - 2
            IN  /\ Len(d) \in 1..256
                /\ padded % 4 = 0 /\ padded >= Len(d) /\ padded < Len(d) + 4
                /\ padded <= 256
                /\ b[1] = padded - 1 /\ b[1] \in 0..255
                /\ \A j \in 1..Len(d) : b[1 + j] = d[j]
                /\ \A j \in (Len(d) + 1)..padded : b[1 + j] = 255

\* a payload of 255 bytes was written: one pad byte, length byte 255
C6_Witness ==
    /\ op = "write_memory" /\ Returned /\ Len(args.data) = 255
    /\ Len(tx) = 3 /\ tx[3].kind = "data" /\ Len(tx[3].bytes) = 258

\* C7: a step of write_memory on an empty payload or one longer than 256 bytes
\* ends the call with ValueError, writes nothing and leaves the port, the
\* line and the engine's recorded chip information as they were.
C7_WriteRejected ==
    [][ (Running /\ op = "write_memory"
            /\ (Len(args.data) = 0 \/ Len(args.data) > 256))
        => /\ ret'.kind = "ValueError"
           /\ tx = <<>> /\ tx' = <<>> /\ consumed' = <<>>
           /\ UNCHANGED <<portvars, linevars, infovars, engvars>> ]_vars

\* a payload of 257 bytes was rejected
C7_Witness ==
    /\ op = "write_memory" /\ Len(args.data) = 257
    /\ ret.kind = "ValueError" /\ tx = <<>>

\* the bytes of memory image seed from address on
MemRange(seed, address, n) == [i \in 1..n |-> Mem(seed, address + i - 1)]

\* C8: read_memory with length 0 or above 256 ends with ValueError and writes
\* nothing; with a length L in 1..256 its length block is (L-1, 255-(L-1)),
\* and when it returns it returns L bytes, the ones the MCU sent, in order.
C8_ReadMemory ==
    op = "read_memory" =>
        IF args.length <= 0 \/ args.length > 256
        THEN tx = <<>> /\ consumed = <<>> /\ ret.kind \in {"none", "ValueError"}
        ELSE /\ ret.kind # "ValueError"
             /\ \A i \in 1..Len(tx) :
                    tx[i].kind = "len" =>
                        tx[i].bytes = <<args.length - 1, 255 - (args.length - 1)>>
             /\ ret.kind = "return" =>
                    /\ Len(tx) = 3 /\ tx[3].kind = "len"
                    /\ Len(ret.data) = args.length
                    /\ \E s \in Seeds : ret.data = MemRange(s, args.address, args.length)

\* a read of 256 bytes has returned
C8_Witness ==
    /\ op = "read_memory" /\ Returned /\ args.length = 256
    /\ Len(ret.data) = 256

\* the bytes a call took from the port through helper h, in order
ReadBy(h) == SelectSeq(consumed, LAMBDA e : e.by = h)
Answered == \E i \in 1..Len(consumed) : consumed[i].b \in {STM32_ACK, STM32_NACK}

\* C9 as stated: sync never ends with an error; it returns true on ACK and
\* false on NACK and on timeout.
C9_SyncNeverRaises ==
    (op = "sync" /\ Ended) =>
        /\ ret.kind = "return"
        /\ ret.ok = (Answered /\ Last(consumed).b = STM32_ACK)

\* C9, amended: sync returns true when the MCU answers ACK and false when it
\* answers NACK; when neither arrives before the timeout it raises
\* TimeoutError.
C9_SyncOutcome ==
    (op = "sync" /\ Ended) =>
        /\ tx = <<[kind |-> "sync", bytes |-> <<127>>]>>
        /\ IF Answered
           THEN /\ ret.kind = "return"
                /\ ret.ok = (Last(consumed).b = STM32_ACK)
           ELSE ret.kind = "TimeoutError"

\* sync has timed out without an answer
C9_Witness == op = "sync" /\ ret.kind = "TimeoutError" /\ ~Answered

\* C10: when get_commands returns, the bytes it read after the ACK are N, the
\* version and N opcodes; bootloader_version is that version byte, commands
\* are those N opcodes in order (what the bootloader lists), and
\* extended_erase is true exactly when 0x44 is one of them.
C10_GetRecords ==
    (op = "get_commands" /\ Returned) =>
        LET rb == ReadBy("_read_byte")
        IN  /\ Len(rb) >= 2 /\ Len(rb) = rb[1].b + 2
            /\ bootloader_version = rb[2].b
            /\ commands = [i \in 1..rb[1].b |-> rb[2 + i].b]
            /\ bootloader_version = chip.version /\ commands = chip.cmds
            /\ ret.data = commands
            /\ extended_erase = (\E i \in 1..Len(commands) : commands[i] = 68)

\* Get returned a list that holds 0x44, not in first place
C10_Witness ==
    /\ op = "get_commands" /\ Returned
    /\ Len(commands) >= 2 /\ commands[1] # 68 /\ commands[2] = 68 /\ extended_erase

\* the command list of the last Get that returned holds 0x44
EnumeratedExtended ==
    enumerated # <<>> /\ \E i \in 1..Len(enumerated[1]) : enumerated[1][i] = 68

\* C11: whatever erase_all has sent, its command frame is 0x44 0xBB when the
\* last Get of this engine returned a list holding 0x44 and 0x43 0xBC
\* otherwise, the block after it is FF FF 00 resp. FF 00, and nothing else
\* goes out: one erase command per call, never both.
C11_EraseDispatch ==
    (op = "erase_all" /\ tx # <<>>) =>
        /\ tx[1] = [kind |-> "cmd",
                    bytes |-> IF EnumeratedExtended THEN <<68, 187>> ELSE <<67, 188>>]
        /\ Len(tx) <= 2
        /\ Len(tx) = 2 =>
               tx[2] = [kind |-> "erase",
                        bytes |-> IF EnumeratedExtended THEN <<255, 255, 0>>
                                                        ELSE <<255, 0>>]

\* erase_all has returned after a Get that listed 0x44
C11_Witness ==
    /\ op = "erase_all" /\ Returned /\ Len(tx) = 2 /\ EnumeratedExtended

\* C12: in a workflow, whenever an erase command has gone out, a Get of the
\* same engine has returned before it.
C12_EraseAfterGet ==
    (wf # "none" /\ op \in {"erase_all", "erase_pages"} /\ tx # <<>>) => enumerated # <<>>

\* engine call o of workflow w has just failed and the workflow reacts next
CallFailed(w, o) == wf = w /\ wpc = o /\ Done(o) /\ ~Ok

\* the workflow repeats the call that is at its end, with the same arguments
Retried == wpc' = wpc /\ op' = op /\ args' = args /\ ret'.kind = "none"

\* C13: a flash that has failed on a write has seen three failed writes of
\* the chunk it stopped at; failures of earlier chunks do not count.
C13_PerChunkBudget ==
    (wf = "cmd_flash" /\ wpc \in {"exit", "finally"} /\ Done("write_memory") /\ ~Ok) =>
        wlocals.chunk_failures = 3

\* C14: the first, second and third failed write of a chunk are each
\* followed by a retry of that chunk; only a fourth failure ends the flash.
C14_FourthFailureFatal ==
    [][(CallFailed("cmd_flash", "write_memory") /\ wlocals.chunk_failures < 3) => Retried]_vars

\* C15: in cmd_verify and in the verify phase of flash, the first and the
\* second failed read of a chunk are each followed by a retry of that chunk.
C15_ReadRetriedPerChunk ==
    [][(/\ CallFailed("cmd_verify", "read_memory") \/ CallFailed("cmd_flash", "read_memory")
        /\ wlocals.chunk_failures < 2) => Retried]_vars

\* the chunk the workflow is at, and the lowest address at which the bytes
\* just read differ from it
Expected == ChunkAt(wlocals.segments, Here)
FirstDiffering ==
    LET i == CHOOSE i \in 1..Len(Expected.data) :
                 /\ ret.data[i] # Expected.data[i]
                 /\ \A j \in 1..(i - 1) : ret.data[j] = Expected.data[j]
    IN  Expected.address + i - 1

\* C16: when verification has ended on a mismatch, the last call is the read
\* that returned the differing bytes (nothing was retried or read after it)
\* and the address reported is the lowest one at which they differ.
C16_FirstDifferingByte ==
    (wf \in {"cmd_verify", "cmd_flash"} /\ wlocals.reported # -1) =>
        /\ Done("read_memory") /\ Ok /\ ret.data # Expected.data
        /\ wlocals.reported = FirstDiffering

\* every byte of every segment lies in a chunk that was read back from the
\* MCU and compared, and equals the byte read
ReadBackEqual ==
    \A s \in 1..Len(wlocals.segments) : \A k \in 1..Len(wlocals.segments[s].data) :
        \E r \in 1..Len(wlocals.readback) :
            LET e == wlocals.readback[r]
                a == wlocals.segments[s].address + k - 1
            IN  /\ e.address <= a /\ a < e.address + Len(e.data)
                /\ e.data[a - e.address + 1] = wlocals.segments[s].data[k]

C18_GoFailureIsWarning ==
    (wf \in {"cmd_flash", "cmd_go"} /\ wpc = "exit" /\ Done("go") /\ ~Ok) =>
        wlocals.outcome = "ok"

\* the payloads of the data records i..j of the file, one after the other
RECURSIVE Payloads(_, _)
Payloads(i, j) ==
    IF i > j THEN <<>> ELSE parse.records[i].data \o Payloads(i + 1, j)

\* segment g is made of the data records i..j: it starts where record i
\* starts, each record starts where the one before it ends, and its bytes
\* are their payloads
MadeOf(g, i, j) ==
    /\ g.address = parse.records[i].address
    /\ \A k \in i..(j - 1) :
          parse.records[k + 1].address
              = parse.records[k].address + Len(parse.records[k].data)
    /\ g.data = Payloads(i, j)

\* parse_hex_file has returned
HexReturned == filepath.kind = "hex" /\ parse.status = "returned"

\* the segments of a HEX file are runs of contiguous data records
HexSegmentsContiguous ==
    HexReturned =>
        \A s \in 1..Len(parse.segments) :
            \E i \in 1..Len(parse.records) : \E j \in i..Len(parse.records) :
                MadeOf(parse.segments[s], i, j)

\* C19: every segment the parser has returned, from a HEX file or from a
\* binary file, holds at least one byte, and a HEX segment is made of
\* consecutive data records with contiguous absolute addresses.
C19_SegmentsNonEmpty ==
    /\ parse.status = "returned" =>
          \A s \in 1..Len(parse.segments) : Len(parse.segments[s].data) > 0
    /\ HexSegmentsContiguous

\* C20: the segments parse_hex_file has returned start at strictly increasing
\* addresses and no two of them share an address.
C20_SegmentsIncreasing ==
    HexReturned =>
        \A s \in 1..Len(parse.segments) : \A t \in (s + 1)..Len(parse.segments) :
            parse.segments[s].address + Len(parse.segments[s].data)
                <= parse.segments[t].address

\* a line of a well-formed file: blank or a comment, or a record whose
\* text is ":", hex digits for count, offset, type, count payload bytes and
\* one checksum byte that makes the bytes sum to 0 modulo 256
WellFormedLine(raw) ==
    LET line == Strip(raw)
        body == SubSeq(line, 2, Len(line))
    IN  \/ line = <<>> \/ line[1] = "#"
        \/ /\ line[1] = ":" /\ Len(line) >= 11 /\ FromHexOk(body)
           /\ Len(line) = 11 + 2 * FromHex(body)[1]
           /\ Sum(FromHex(body)) % 256 = 0
WellFormedFile == \A i \in 1..Len(filepath.lines) : WellFormedLine(filepath.lines[i])

\* segment g holds byte b at address a
Holds(g, a, b) ==
    /\ g.address <= a /\ a < g.address + Len(g.data)
    /\ g.data[a - g.address + 1] = b

\* C21: when parse_hex_file has returned from a well-formed file, with or
\* without an end-of-file record, every byte of every data record is held
\* at its absolute address by exactly one returned segment, and every byte
\* of a segment is a byte some data record carries at that address.
C21_ImagePreserved ==
    (HexReturned /\ WellFormedFile) =>
        /\ \A r \in 1..Len(parse.records) : \A k \in 1..Len(parse.records[r].data) :
              Cardinality({s \in 1..Len(parse.segments) :
                  Holds(parse.segments[s], parse.records[r].address + k - 1,
                        parse.records[r].data[k])}) = 1
        /\ \A s \in 1..Len(parse.segments) : \A k \in 1..Len(parse.segments[s].data) :
              \E r \in 1..Len(parse.records) :
                  Holds(parse.records[r], parse.segments[s].address + k - 1,
                        parse.segments[s].data[k])

\* the line parse_hex_file has dealt with last, stripped
LastLine == Strip(filepath.lines[parse.line_num])
Skipped(line) == line = <<>> \/ line[1] = "#"
AllHex(t) == \A i \in 1..Len(t) : IsHexDigit(t[i])

\* a line that is not a record: no colon, fewer than 11 characters, a
\* non-hex digit in the header or the payload, or fewer payload digits than
\* twice the count of its header
Malformed(line) ==
    \/ line[1] # ":"
    \/ Len(line) < 11
    \/ ~AllHex(SubSeq(line, 2, 9))
    \/ LET byte_count == HexValue(SubSeq(line, 2, 3))
       IN  \/ Len(line) < 9 + 2 * byte_count
           \/ ~AllHex(SubSeq(line, 10, Min(9 + 2 * byte_count, Len(line))))

\* C22: a line that is not skipped and is malformed makes parse_hex_file
\* raise; a data record it accepts adds exactly byte-count bytes.
C22_MalformedRejected ==
    (filepath.kind = "hex" /\ parse.line_num >= 1 /\ ~Skipped(LastLine)) =>
        IF Malformed(LastLine) THEN parse.status = "raised"
        ELSE (parse.status # "raised" /\ HexValue(SubSeq(LastLine, 8, 9)) = 0) =>
                 Len(Last(parse.records).data) = HexValue(SubSeq(LastLine, 2, 3))

\* C23: the segments cmd_flash and cmd_verify work on for a .bin file are one
\* segment, the whole file, at the start address the caller gave, whatever
\* its value, and at 0x08000000 when the caller gave none.
C23_BinAtGivenAddress ==
    (/\ wf \in {"cmd_flash", "cmd_verify"} /\ wargs.file \in {"image.bin", "empty.bin"}
     /\ wlocals.segments # <<>>) =>
        wlocals.segments =
            <<[address |-> IF wargs.start_address = NoAddress THEN 134217728
                           ELSE wargs.start_address,
               data |-> Content(wargs.file)]>>


\* C24: the TX counter is the number of bytes that send_data has written
\* successfully since the last successful connect; a refused, timed out or
\* failed send leaves it where it was
C24_TxCounter == tx_bytes = history.tx

\* on the second port, two calls of send_data so far, the last one a
\* success, and one byte counted
C24_Witness ==
    /\ nports = 2 /\ history.sends = 2 /\ history.result = "ok" /\ tx_bytes = 1

\* C25: the RX counter never holds more than the bytes the reader has read
\* since the last successful connect: bytes read before it are not added
C25_RxCounter == rx_bytes <= history.rx

OpenPorts == { p \in DOMAIN port_open : port_open[p] }

\* C26: at most one port is open at any time, and a port is opened only when
\* none is open: after a disconnect, or after a fault closed the current one
C26_OnePortOpen ==
    [][/\ Cardinality(OpenPorts') <= 1
       /\ (OpenPorts' \ OpenPorts # {}) => OpenPorts = {}]_vars

\* the second port is open, the first was closed after a failed write
C26_Witness ==
    /\ nports = 2 /\ OpenPorts = {2} /\ ser = 2 /\ history.result = "error"

\* C27: when a verb that drives the MCU has ended, the exit code of the
\* one-shot invocation is 0 only if the operation succeeded
C27_ExitCode ==
    (/\ wf \in {"cmd_flash", "cmd_erase", "cmd_go", "cmd_chip_info"} /\ wpc = "finally"
     /\ ExitCode(wf, wlocals.outcome) = 0) =>
        wlocals.outcome = "ok"

NotConnected == ser = 0 \/ ~port_open[ser]

\* C28: without an open port, a workflow that is invoked returns at once and
\* leaves the pause gate, the parity and the wire alone, and send_data is
\* refused as "Not connected" and leaves the counters alone
C28_NotConnected ==
    [][(wf = "none" /\ NotConnected) =>
          /\ runs' # runs =>
                /\ wf' = "none"
                /\ UNCHANGED <<reader_paused, mgr_reader_paused, port_parity, port_open,
                               rxbuf, mcu, tx, eng_ser>>
          /\ history'.sends # history.sends =>
                /\ history'.result = "Not connected"
                /\ UNCHANGED <<tx_bytes, rx_bytes, port_open, rxbuf, history.tx>>]_vars

\* no port was ever opened; a workflow was invoked and has returned, and
\* send_data was refused
C28_Witness ==
    /\ nports = 0 /\ runs = 1 /\ wf = "none" /\ ~reader_paused
    /\ history.sends > 0 /\ history.result = "Not connected"

\* C29: every workflow ends, whatever the MCU does, and leaves the session
\* usable: the gate released, the port open with the parity it had
C29_WorkflowEnds ==
    (wf # "none") ~>
        (wf = "none" /\ ~reader_paused /\ port_open[ser] /\ port_parity[ser] = "N")

\* a flash is ending after an engine call that ran into its deadline
C29_Witness ==
    /\ wf = "cmd_flash" /\ wpc = "finally" /\ ret.kind = "TimeoutError"

\* the workflow sends the command of engine call o in this step
Starts(o) == op' = o /\ ret'.kind = "none" /\ (op = "none" \/ ret.kind # "none")

\* the engine call o has ended and was acknowledged
Acked(o) == op = o /\ ret.kind = "return"

\* the position after the chunk of n bytes at the current one
AfterChunk(n) == Seek(wlocals.segments, wlocals.seg, wlocals.offset + n)

\* the engine call at its end is a failure that ends the flash
FlashFails ==
    \/ op = "sync" /\ ~(ret.kind = "return" /\ ret.ok)
    \/ op = "erase_all" /\ ret.kind # "return"
    \/ op \in {"write_memory", "read_memory"} /\ ret.kind # "return" /\ wlocals.errors >= 2
    \/ Acked("read_memory") /\ ret.data # ChunkAt(wlocals.segments, Here).data

RECURSIVE Cut(_, _)
Cut(address, data) ==
    IF data = <<>> THEN <<>>
    ELSE IF Len(data) <= 256 THEN << [address |-> address, data |-> data] >>
    ELSE << [address |-> address, data |-> SubSeq(data, 1, 256)] >> \o
         Cut(address + 256, SubSeq(data, 257, Len(data)))

\* the chunks of all segments, in the order of the segments
RECURSIVE AllChunks(_)
AllChunks(segments) ==
    IF segments = <<>> THEN <<>>
    ELSE Cut(Head(segments).address, Head(segments).data) \o AllChunks(Tail(segments))

\* C31: the successful writes of a flash are the chunks of the segments, in
\* order and each once; bytes_written counts their bytes, never exceeds the
\* total size and equals it once the write phase is complete
C31_WritesPartition ==
    wf = "cmd_flash" =>
        LET all == AllChunks(wlocals.segments)
            n == Len(wlocals.written)
        IN  /\ n <= Len(all) /\ wlocals.written = SubSeq(all, 1, n)
            /\ wlocals.bytes_written = TotalSize(wlocals.written)
            /\ wlocals.bytes_written <= TotalSize(wlocals.segments)
            /\ (wpc \in {"read_memory", "go"} \/ wlocals.outcome = "ok") =>
                  /\ wlocals.written = all
                  /\ wlocals.bytes_written = TotalSize(wlocals.segments)

\* the flash of the file of 257 bytes has written its two chunks
C31_Witness ==
    /\ wf = "cmd_flash" /\ wargs.file = "large.bin" /\ wpc = "read_memory"
    /\ Len(wlocals.written) = 2 /\ wlocals.bytes_written = 257


\* the blocks one engine operation writes, in order
Phases(o) ==
    IF o = "read_memory" THEN <<"cmd", "addr", "len">>
    ELSE IF o = "write_memory" THEN <<"cmd", "addr", "data">>
    ELSE <<"cmd", "addr">>

\* the bytes equal to b that _wait_ack has taken during the current call
RECURSIVE Taken(_, _)
Taken(c, b) ==
    IF c = <<>> THEN 0
    ELSE (IF Head(c).by = "_wait_ack" /\ Head(c).b = b THEN 1 ELSE 0) + Taken(Tail(c), b)

\* C32: in read_memory, write_memory and go every block after the command
\* frame is written only after the previous block was acknowledged: the
\* blocks written are a prefix of command, address, length/data, at most one
\* more than the ACKs received; after a NACK or a timeout the call has
\* failed, and only a call whose blocks were all acknowledged succeeds
C32_PhasesGated ==
    op \in {"read_memory", "write_memory", "go"} =>
        LET acks == Taken(consumed, STM32_ACK)
            nacks == Taken(consumed, STM32_NACK)
        IN  /\ Len(tx) <= Len(Phases(op))
            /\ \A i \in 1..Len(tx) : tx[i].kind = Phases(op)[i]
            /\ Len(tx) <= acks + 1
            /\ nacks <= 1
            /\ nacks = 1 => /\ Len(tx) = acks + 1
                            /\ consumed[Len(consumed)].b = STM32_NACK
                            /\ (sub = "none" /\ ret.kind # "none") => ret.kind = "Exception"
            /\ ret.kind = "TimeoutError" => Len(tx) = acks + 1 \/ acks = Len(Phases(op))
            /\ ret.kind = "return" => acks = Len(Phases(op)) /\ nacks = 0

C32_Witness ==
    /\ op = "read_memory" /\ ret.kind = "Exception"
    /\ Len(tx) = 2 /\ Taken(consumed, STM32_NACK) = 1 /\ Taken(consumed, STM32_ACK) = 1

C32_WitnessTimeout ==
    /\ op = "write_memory" /\ ret.kind = "TimeoutError"
    /\ Len(tx) = 1 /\ Taken(consumed, STM32_ACK) = 0


\* sync() returned False to a workflow
SyncRefused == wf # "none" /\ op = "sync" /\ ret.kind = "return" /\ ~ret.ok

\* the step of sync() that flushes and writes
SyncStarts == op = "sync" /\ pc = "start" /\ pc' = "ack"

\* C33: sync() empties the input buffer in the step that writes 0x7F, its
\* only write, and reads nothing before it, so every byte it judges arrived
\* after the flush; once sync has returned False the workflow writes nothing
\* more and starts no other engine call before it is back at the prompt
C33_SyncFresh ==
    /\ [](op = "sync" =>
            /\ consumed # <<>> => tx # <<>>
            /\ tx \in {<<>>, << [kind |-> "sync", bytes |-> <<SYNC_BYTE>>] >>}
            /\ (tx # <<>> /\ ret.kind = "return" /\ ret.ok) =>
                  /\ consumed = << [by |-> "_wait_ack", b |-> STM32_ACK] >>
                  /\ mcu = McuIdle /\ rxbuf = <<>>)
    /\ [](wf # "none" /\ wlocals.outcome = "sync failed" => SyncRefused)
    /\ [][/\ SyncStarts => rxbuf' = <<>> /\ Len(tx') = 1 /\ consumed' = <<>>
          /\ SyncRefused => /\ tx' \in {tx, <<>>}
                            /\ op' \in {"sync", "none"}
                            /\ op' = "none" => wf' = "none"]_vars

C33_Witness ==
    /\ wf = "cmd_erase" /\ wpc = "finally" /\ wlocals.outcome = "sync failed"
    /\ SyncRefused /\ Len(tx) = 1

C33_WitnessAccepted ==
    /\ wf = "cmd_erase" /\ wpc = "sync" /\ op = "sync" /\ ret.kind = "return" /\ ret.ok

C33_WitnessStale == wf # "none" /\ wpc = "enter" /\ rxbuf # <<>>


\* the reader gives the port up in this step
ReaderCloses == rpc = "error" /\ rpc' = "top" /\ port_open' # port_open

\* C34: the reader closes the port only at the fifth of five I/O errors
\* between which no poll of the port succeeded; it then starts counting from
\* zero, and the foreground thread is left where it was
C34_FiveInARow ==
    [][ReaderCloses =>
          /\ history.streak + 1 >= max_consecutive_errors
          /\ consecutive_errors' = 0
          /\ UNCHANGED <<callvars, wfvars>>]_vars

\* the reader closes the port at an error that follows a successful poll
C34_Reached == rpc = "error" /\ history.streak = 0 /\ consecutive_errors = 4
               /\ ser # 0 /\ port_open[ser]


\* what one display step prints of the buffer it is handed, before the
\* carriage returns are removed: everything in hex mode; in text mode the
\* complete lines of the scrubbed text, or all of it on a packet timeout
Rendered(buf, hex, is_timeout) ==
    IF buf = <<>> \/ ~(Contains(buf, 10) \/ is_timeout) THEN <<>>
    ELSE IF hex THEN buf
    ELSE LET text == Sanitize(buf)
         IN  IF Contains(text, 10)
             THEN SubSeq(text, 1, Len(text) - Len(LastPart(text)))
             ELSE IF is_timeout THEN text ELSE <<>>

\* the buffer of this iteration after the read, if there was one
Handed ==
    IF rpc = "read" THEN buffer \o SubSeq(rxbuf, 1, Min(bytes_to_read, Len(rxbuf)))
    ELSE buffer

\* a reader step that reaches the display step
Displays ==
    /\ rpc \in {"poll", "read"} /\ rpc' = "top"
    /\ ~(rpc = "poll" /\ rxbuf # <<>>)

\* C35 (order): what a display step prints and what it keeps make up the
\* buffer it was handed, scrubbed in text mode, in the order of arrival; in
\* hex mode a flush prints and clears everything; without a newline and
\* before the timeout nothing is printed and the buffer is kept
C35_FlushInOrder ==
    [][Displays =>
         \E is_timeout \in BOOLEAN :
            LET out == Rendered(Handed, hex_mode, is_timeout)
                flushed == Handed # <<>> /\ (Contains(Handed, 10) \/ is_timeout)
            IN  /\ flushed /\ hex_mode => out = Handed /\ buffer' = <<>>
                /\ flushed /\ ~hex_mode =>
                      /\ out \o buffer' = Sanitize(Handed)
                      /\ ~Contains(buffer', 10)
                      /\ Contains(Handed, 10) => out # <<>> /\ out[Len(out)] = 10
                      /\ ~Contains(Handed, 10) => buffer' = <<>>
                /\ ~flushed => out = <<>> /\ buffer' = Handed]_vars

\* C35: while the reader runs un-paused, bytes that wait in its buffer
\* are eventually flushed
C35_EventuallyRendered ==
    (buffer # <<>> /\ running /\ ~mgr_reader_paused) ~> (buffer = <<>>)

\* the same while the port stays usable
C35_RenderedWhileOpen ==
    (buffer # <<>>) ~> (buffer = <<>> \/ ser = 0 \/ ~port_open[ser] \/ fault)

\* a partial line waits in the buffer of a reader whose port is closed
C35_Reached == buffer = <<65>> /\ ser = 0 /\ rpc = "top" /\ ~hex_mode


\* C36: a buffer longer than MAX_DISPLAY_BUFFER after a read is cut to its
\* last MAX_DISPLAY_BUFFER / 2 bytes before the display step, so that step
\* is never handed more than MAX_DISPLAY_BUFFER bytes and the buffer it
\* leaves is never longer; a read takes at most READ_BUFFER_SIZE bytes
C36_BufferCut ==
    /\ [](Len(buffer) <= MAX_DISPLAY_BUFFER /\ bytes_to_read <= READ_BUFFER_SIZE)
    /\ [][Displays =>
            LET n == Len(Handed)
                half == MAX_DISPLAY_BUFFER \div 2
                cut == Truncate(Handed)
            IN  /\ Len(cut) <= MAX_DISPLAY_BUFFER
                /\ n <= MAX_DISPLAY_BUFFER + READ_BUFFER_SIZE
                /\ n > MAX_DISPLAY_BUFFER =>
                      /\ Len(cut) = half
                      /\ cut = SubSeq(Handed, n - half + 1, n)
                      /\ buffer' \in {<<>>, cut}
                /\ n <= MAX_DISPLAY_BUFFER => cut = Handed]_vars

C36_Witness ==
    /\ history.rx = MAX_DISPLAY_BUFFER + READ_BUFFER_SIZE
    /\ Len(buffer) = MAX_DISPLAY_BUFFER \div 2 /\ rpc = "top"


\* the calls that operate on the chip, as opposed to discovery
Operational ==
    {"read_memory", "write_memory", "erase_all", "erase_pages", "go", "write_unprotect",
     "readout_unprotect"}

\* what discovery recorded
ChipInfo == <<bootloader_version, commands, extended_erase, chip_id>>

\* the caller calls the method that has just failed once more
Retries ==
    /\ op \in Operational /\ ret.kind \notin {"none", "return"}
    /\ op' = op /\ ret'.kind = "none"

\* C37: no step of an operational call, nor its invocation, changes the
\* recorded bootloader version, command list, extended_erase flag or chip
\* id, however the call ends; after a failed call the caller can call again,
\* and the new call starts from nothing sent and writes a command frame first
C37_InfoKept ==
    /\ [][op' \in Operational => ChipInfo' = ChipInfo]_vars
    /\ [](op \in Operational /\ ret.kind # "none" => ENABLED (Caller /\ op' = op))
    /\ [](op \in Operational /\ tx # <<>> => tx[1].kind = "cmd" /\ Len(tx[1].bytes) = 2)
    /\ [][Retries => /\ tx' = <<>> /\ consumed' = <<>> /\ pc' = "start"
                     /\ sub' = "none" /\ locals' = NoLocals]_vars

C37_Witness ==
    /\ op = "write_memory" /\ ret.kind = "Exception" /\ Taken(consumed, STM32_NACK) = 1
    /\ commands # <<>> /\ chip_id # -1 /\ bootloader_version # -1 /\ extended_erase


\* C38: between the calls of the engine, also after a Get that failed,
\* extended_erase is true exactly when 0x44 is in the recorded command list
C38_InfoConsistent ==
    (op = "none" \/ ret.kind # "none") =>
        (extended_erase <=> Contains(commands, STM32_CMD_EXTENDED_ERASE))

\* a Get has failed at its trailing acknowledgement with 0x44 in the list read
C38_Reached ==
    /\ op = "get_commands" /\ ret.kind \in {"Exception", "TimeoutError"}
    /\ Contains(commands, STM32_CMD_EXTENDED_ERASE) /\ ~extended_erase
    /\ commands = chip.cmds


\* C39: when the reader gives a port up, it closes the port whose poll or
\* read has just failed, never a port that a later connect opened
C39_ClosesOwnPort ==
    [][ReaderCloses => /\ ser = current_ser
                       /\ \A p \in DOMAIN port_open :
                             port_open[p] /\ ~port_open'[p] => p = current_ser]_vars

\* the reader fails on the port it cached while a newer port is open
C39_Reached ==
    /\ rpc = "error" /\ consecutive_errors = max_consecutive_errors - 1
    /\ current_ser = 1 /\ ~port_open[1] /\ ser = 2 /\ port_open[2] /\ ~fault


\* this step reads a byte from the port
Takes == consumed' # consumed

\* C40: a wait for an acknowledgement reads one byte at a time; ACK ends it
\* with True, NACK ends it with False, any other byte is dropped and the
\* wait goes on or runs out of time; TimeoutError is raised only by a step
\* that read no ACK and no NACK, and the wait reads nothing after the ACK or
\* NACK it decided on
C40_AckWait ==
    [][sub = "_wait_ack" =>
         LET b == Head(rxbuf)
         IN  /\ Takes =>
                   /\ rxbuf # <<>> /\ rxbuf' = Tail(rxbuf)
                   /\ consumed' = Append(consumed, [by |-> "_wait_ack", b |-> b])
                   /\ b = STM32_ACK =>
                         sub' = "none" /\ subret'.ok /\ subret'.byte = b /\ ret' = ret
                   /\ b = STM32_NACK =>
                         sub' = "none" /\ ~subret'.ok /\ subret'.byte = b /\ ret' = ret
                   /\ b \notin {STM32_ACK, STM32_NACK} =>
                         \/ sub' = "_wait_ack" /\ subret' = subret /\ ret' = ret
                         \/ sub' = "none" /\ ret'.kind = "TimeoutError"
             /\ ~Takes /\ sub' # sub => ret'.kind = "TimeoutError" /\ rxbuf = <<>>
             /\ ret' # ret => ret'.kind = "TimeoutError" /\ ~ret'.ok /\ subret' = subret
             /\ sub' = "_wait_ack" => pc' = pc /\ tx' = tx]_vars

\* a wait has dropped a stray byte and then taken the ACK
C40_Witness ==
    /\ op = "go" /\ pc = "cmd_ack" /\ sub = "none" /\ subret.ok
    /\ consumed = << [by |-> "_wait_ack", b |-> Head(Stray)],
                    [by |-> "_wait_ack", b |-> STM32_ACK] >>

============================================================================
